---- MODULE Spec2Model ----
(***************************************************************************)
(* Record-linkage pipeline of the Pinatubo 1991 seismic catalog:           *)
(*   step 22  merge_pick_tables        (src/pipeline/22_merge_picks.py)    *)
(*   step 32  build_event_catalog      (32_build_waveform_pick_events.py)  *)
(*   step 05b waveform/pick-group association (05b_..._pick_events.py)     *)
(*   step 43  hypocenter clustering    (43_associate_hypocenters.py)       *)
(*   step 50  final outer join         (50_build_obspy_catalog.py)         *)
(* Each step is a batch run: its specification draws the input tables in   *)
(* Init and then steps through the run's stages and loop iterations.       *)
(* Times are integers (one unit = the time resolution of the inputs).      *)
(***************************************************************************)
EXTENDS Integers, Sequences, FiniteSets, TLC

VARIABLES
    pc,                 \* stage of the running step
    \* ---- step 43
    all_origins, time_tol, dist_tol, preferred_source,
    assigned, i, event_id, events, origins_out,
    \* ---- step 50
    df_evt, df_he, df_ho, origin_time_tol,
    hypo_for_event, catalog_all, n_evt,
    \* ---- step 22
    df_primary, df_secondary, prim_bad, sec_bad,
    df_primary_kept, df_primary_dups, df_secondary_kept, df_secondary_dups,
    df_secondary_suppressed, df_secondary_final, merged, suppressed, diagnostics,
    \* ---- step 32
    df_wav, df_picks, df_map, wav_pos, assigned_pick_ids,
    events_rows, pick_rows, df_events, df_pickmap,
    \* ---- step 05b
    df_wav_05b, df_picks_05b, group_pos, used_waveform_ids, event_counter,
    events_05b, pick_map, unmatched_picks_rows, unmatched_waveforms_rows,
    \* ---- a direct call of one function of the pipeline
    call_in, call_out,
    \* ---- step 30
    df_picks_30, df_wav_30, group_pos_30, event_rows, pick_map_rows, qc_rows

vars43 == <<all_origins, time_tol, dist_tol, preferred_source,
            assigned, i, event_id, events, origins_out>>

vars50 == <<df_evt, df_he, df_ho, origin_time_tol,
            hypo_for_event, catalog_all, n_evt>>

vars22 == <<df_primary, df_secondary, prim_bad, sec_bad,
            df_primary_kept, df_primary_dups, df_secondary_kept, df_secondary_dups,
            df_secondary_suppressed, df_secondary_final, merged, suppressed,
            diagnostics>>

vars32 == <<df_wav, df_picks, df_map, wav_pos, assigned_pick_ids,
            events_rows, pick_rows, df_events, df_pickmap>>

vars05b == <<df_wav_05b, df_picks_05b, group_pos, used_waveform_ids, event_counter,
             events_05b, pick_map, unmatched_picks_rows, unmatched_waveforms_rows>>

varsCall == <<call_in, call_out>>
vars30 == <<df_picks_30, df_wav_30, group_pos_30, event_rows, pick_map_rows, qc_rows>>

vars == <<pc, vars43, vars50, vars22, vars32, vars05b, varsCall, vars30>>

(***************************************************************************)
(* The state of a step that is not running: each specification runs one    *)
(* step and leaves the variables of the others at these values.            *)
(***************************************************************************)
Idle43 ==
    /\ all_origins = <<>> /\ time_tol = 0 /\ dist_tol = 0
    /\ preferred_source = "hypo40" /\ assigned = <<>> /\ i = 1
    /\ event_id = 0 /\ events = <<>> /\ origins_out = <<>>

Idle50 ==
    /\ df_evt = <<>> /\ df_he = <<>> /\ df_ho = <<>> /\ origin_time_tol = 0
    /\ hypo_for_event = <<>> /\ catalog_all = <<>> /\ n_evt = 1

Idle22 ==
    /\ df_primary = <<>> /\ df_secondary = <<>> /\ prim_bad = 0 /\ sec_bad = 0
    /\ df_primary_kept = <<>> /\ df_primary_dups = <<>>
    /\ df_secondary_kept = <<>> /\ df_secondary_dups = <<>>
    /\ df_secondary_suppressed = <<>> /\ df_secondary_final = <<>>
    /\ merged = <<>> /\ suppressed = <<>> /\ diagnostics = <<>>

Idle32 ==
    /\ df_wav = <<>> /\ df_picks = <<>> /\ df_map = <<>> /\ wav_pos = 1
    /\ assigned_pick_ids = {} /\ events_rows = <<>> /\ pick_rows = <<>>
    /\ df_events = <<>> /\ df_pickmap = <<>>

Idle05b ==
    /\ df_wav_05b = <<>> /\ df_picks_05b = <<>> /\ group_pos = 1
    /\ used_waveform_ids = {} /\ event_counter = 0
    /\ events_05b = <<>> /\ pick_map = <<>>
    /\ unmatched_picks_rows = <<>> /\ unmatched_waveforms_rows = <<>>

IdleCall == call_in = <<>> /\ call_out = <<>>

Idle30 ==
    /\ df_picks_30 = <<>> /\ df_wav_30 = <<>> /\ group_pos_30 = 1
    /\ event_rows = <<>> /\ pick_map_rows = <<>> /\ qc_rows = <<>>

(***************************************************************************)
(* Helpers                                                                 *)
(***************************************************************************)
\* pandas' missing timestamp: a value outside the range of every time
NaT == 0 - 1
\* a missing cell of a string column, and a missing identifier
NA == "NA"
NoId == <<>>

Abs(x) == IF x < 0 THEN -x ELSE x

RECURSIVE SumSeq(_)
SumSeq(s) == IF s = <<>> THEN 0 ELSE Head(s) + SumSeq(Tail(s))

\* sequences over S of length 0..n
SeqUpTo(S, n) == UNION {[1..m -> S] : m \in 0..n}

Range(s) == {s[k] : k \in DOMAIN s}

(***************************************************************************)
(* STEP 43: associate hypocenters of two sources into events               *)
(***************************************************************************)
MaxOrigins == 3     \* origins in the two input tables together
MaxOriginTime == 2  \* origin times 0..MaxOriginTime
MaxLat == 1         \* positions 0..MaxLat along one meridian
MaxTimeTol == 1     \* --time-tol in 0..MaxTimeTol
MaxDistTol == 1     \* --dist-tol in 0..MaxDistTol

Sources == {"hypo40", "pinaall"}

\* great-circle distance; the inputs lie on one meridian, one unit of
\* latitude apart per unit of distance, so the arc is the latitude difference
km_distance(lat1, lon1, lat2, lon2) == Abs(lat1 - lat2)

\* rows of df40_norm / df41_norm: origin_id is the source and the row's index
\* in its own table
OriginRows == [origin_time : 0..MaxOriginTime, latitude : 0..MaxLat,
               longitude : {0}, source : Sources]

WithOriginIds(rows) ==
    [k \in DOMAIN rows |->
        [origin_id |-> <<rows[k].source,
                         Cardinality({m \in 1..(k - 1) : rows[m].source = rows[k].source})>>,
         origin_time |-> rows[k].origin_time,
         latitude |-> rows[k].latitude,
         longitude |-> rows[k].longitude,
         source |-> rows[k].source]]

\* concat + sort_values("origin_time"): any order of the rows that is
\* ascending in origin_time (the order of equal times is the sort's choice)
SortedByOriginTime(rows) ==
    \A k \in 1..(Len(rows) - 1) : rows[k].origin_time <= rows[k + 1].origin_time

RECURSIVE ScanLaterChain(_, _, _)
\* the scan with the time difference taken to the last member of the
\* cluster instead of the anchor
ScanLaterChain(a, j, members) ==
    IF j > Len(all_origins) THEN members
    ELSE IF assigned[j] THEN ScanLaterChain(a, j + 1, members)
    ELSE LET last == members[Len(members)]
             dt == Abs(all_origins[j].origin_time - all_origins[last].origin_time)
             dist == km_distance(all_origins[a].latitude, all_origins[a].longitude,
                                 all_origins[j].latitude, all_origins[j].longitude)
         IN  IF dt > time_tol THEN members
             ELSE IF dist <= dist_tol THEN ScanLaterChain(a, j + 1, Append(members, j))
             ELSE ScanLaterChain(a, j + 1, members)

RECURSIVE ScanLaterAnyDistance(_, _, _)
\* the scan without the distance test
ScanLaterAnyDistance(a, j, members) ==
    IF j > Len(all_origins) THEN members
    ELSE IF assigned[j] THEN ScanLaterAnyDistance(a, j + 1, members)
    ELSE LET dt == Abs(all_origins[j].origin_time - all_origins[a].origin_time)
         IN  IF dt > time_tol THEN members
             ELSE ScanLaterAnyDistance(a, j + 1, Append(members, j))

RECURSIVE ScanLater(_, _, _)
\* the inner loop over j = i+1 .. len-1: the later origins that join the
\* cluster anchored at row a
ScanLater(a, j, members) ==
    IF j > Len(all_origins) THEN members
    ELSE IF assigned[j] THEN ScanLater(a, j + 1, members)
    ELSE LET dt == Abs(all_origins[j].origin_time - all_origins[a].origin_time)
             dist == km_distance(all_origins[a].latitude, all_origins[a].longitude,
                                 all_origins[j].latitude, all_origins[j].longitude)
         IN  IF dt > time_tol THEN members
             ELSE IF dist <= dist_tol THEN ScanLater(a, j + 1, Append(members, j))
             ELSE ScanLater(a, j + 1, members)

\* the marking without assigned[j] = True for the members found by the scan
MarkAssignedAnchorOnly(asg, members) ==
    [k \in DOMAIN asg |-> asg[k] \/ k = members[1]]

\* assigned[i] = True and assigned[j] = True for every member
MarkAssigned(asg, members) ==
    [k \in DOMAIN asg |-> asg[k] \/ k \in Range(members)]

\* the first member, whatever its source
PreferredMemberFirst(members) == members[1]

\* preferred = first member of the preferred source, else the first member
PreferredMember(members) ==
    LET pref == SelectSeq(members,
                    LAMBDA m : all_origins[m].source = preferred_source)
    IN  IF pref # <<>> THEN pref[1] ELSE members[1]

Init43 ==
    /\ pc = "associate"
    /\ Idle50 /\ Idle22 /\ Idle32 /\ Idle05b /\ IdleCall /\ Idle30
    /\ \E rows \in SeqUpTo(OriginRows, MaxOrigins) :
          /\ SortedByOriginTime(rows)
          /\ all_origins = WithOriginIds(rows)
    /\ time_tol \in 0..MaxTimeTol
    /\ dist_tol \in 0..MaxDistTol
    /\ preferred_source \in Sources
    /\ assigned = [k \in DOMAIN all_origins |-> FALSE]
    /\ i = 1
    /\ event_id = 0
    /\ events = <<>>
    /\ origins_out = <<>>

\* outer loop, "if assigned[i]: continue"
SkipAssigned ==
    /\ pc = "associate"
    /\ i <= Len(all_origins)
    /\ assigned[i]
    /\ i' = i + 1
    /\ UNCHANGED <<pc, all_origins, time_tol, dist_tol, preferred_source,
                   assigned, event_id, events, origins_out, vars50, vars22, vars32, vars05b, varsCall, vars30>>

\* outer loop body for an unassigned origin: open an event, scan, emit rows
OpenCluster ==
    /\ pc = "associate"
    /\ i <= Len(all_origins)
    /\ ~assigned[i]
    /\ LET members == ScanLater(i, i + 1, <<i>>)
           preferred == PreferredMember(members)
       IN  /\ event_id' = event_id + 1
           /\ assigned' = MarkAssigned(assigned, members)
           /\ events' = Append(events,
                  [event_id |-> event_id + 1,
                   preferred_origin_time |-> all_origins[preferred].origin_time,
                   preferred_origin_id |-> all_origins[preferred].origin_id,
                   n_origins |-> Len(members)])
           /\ origins_out' = origins_out \o
                  [k \in 1..Len(members) |->
                      [event_id |-> event_id + 1,
                       origin_id |-> all_origins[members[k]].origin_id,
                       origin_time |-> all_origins[members[k]].origin_time,
                       latitude |-> all_origins[members[k]].latitude,
                       source |-> all_origins[members[k]].source]]
    /\ i' = i + 1
    /\ UNCHANGED <<pc, all_origins, time_tol, dist_tol, preferred_source, vars50, vars22, vars32, vars05b, varsCall, vars30>>

\* the loop is over: the two tables are written
WriteOutputs43 ==
    /\ pc = "associate"
    /\ i > Len(all_origins)
    /\ pc' = "done"
    /\ UNCHANGED <<vars43, vars50, vars22, vars32, vars05b, varsCall, vars30>>

Next43 == SkipAssigned \/ OpenCluster \/ WriteOutputs43

Spec43 == Init43 /\ [][Next43]_vars

(***************************************************************************)
(* The association loop of step 43 as a function of the sorted table, for  *)
(* a second run on the same origins in another order                       *)
(***************************************************************************)
RECURSIVE ScanLaterIn(_, _, _, _, _)
\* the inner loop, lines 118-135, on table rows with the flags asg
ScanLaterIn(rows, asg, a, j, members) ==
    IF j > Len(rows) THEN members
    ELSE IF asg[j] THEN ScanLaterIn(rows, asg, a, j + 1, members)
    ELSE LET dt == Abs(rows[j].origin_time - rows[a].origin_time)
             dist == km_distance(rows[a].latitude, rows[a].longitude,
                                 rows[j].latitude, rows[j].longitude)
         IN  IF dt > time_tol THEN members
             ELSE IF dist <= dist_tol
                  THEN ScanLaterIn(rows, asg, a, j + 1, Append(members, j))
                  ELSE ScanLaterIn(rows, asg, a, j + 1, members)

RECURSIVE ClusterRun(_, _, _)
\* the outer loop, lines 110-144, from row k on: the clusters as rows of the
\* table, each with its preferred origin
ClusterRun(rows, asg, k) ==
    IF k > Len(rows) THEN <<>>
    ELSE IF asg[k] THEN ClusterRun(rows, asg, k + 1)
    ELSE LET members == ScanLaterIn(rows, asg, k, k + 1, <<k>>)
             group == [m \in DOMAIN members |-> rows[members[m]]]
             pref == SelectSeq(group, LAMBDA o : o.source = preferred_source)
         IN  <<[group |-> group,
                preferred |-> IF pref # <<>> THEN pref[1] ELSE group[1]]>>
             \o ClusterRun(rows, MarkAssigned(asg, members), k + 1)

(***************************************************************************)
(* STEP 50: outer join of the step 32 event spine with the step 43         *)
(* hypocenter events                                                       *)
(***************************************************************************)
MaxRows50 == 3      \* rows of df_evt and df_he together
MaxTime50 == 3      \* event and origin times 0..MaxTime50
MaxTol50 == 2       \* --origin-time-tol in 0..MaxTol50

SpineClasses == <<"PICKS_ONLY", "WAV+PICKS", "WAV_ONLY">>

\* a row of the step 32 event index; starttime is missing only for a
\* pick-only event none of whose picks has a time (step 32, lines 460-468)
EvtRows ==
    [event_time : 0..MaxTime50, class : 1..3]
        \cup [event_time : {NaT}, class : {1}]

\* a row of the step 43 event index with the number of its origin rows
HypoRows == [preferred_origin_time : 0..MaxTime50, n_origins : 1..2]

\* sort_values on a time column: an ascending order of the rows' indices
\* (the order of equal times is the sort's choice)
SortedOrders(keys) ==
    {o \in [1..Len(keys) -> 1..Len(keys)] :
        /\ \A a, b \in 1..Len(keys) : a # b => o[a] # o[b]
        /\ \A a \in 1..(Len(keys) - 1) : keys[o[a]] <= keys[o[a + 1]]}

\* pandas asof_join_backward over the sorted right keys: the last right row
\* at or before t, within tol (0: none)
AsofBackward(t, right, tol) ==
    LET c == {k \in DOMAIN right : right[k] <= t}
        b == IF c = {} THEN 0 ELSE CHOOSE k \in c : \A m \in c : m <= k
    IN  IF b # 0 /\ t - right[b] > tol THEN 0 ELSE b

\* pandas asof_join_forward: the first right row at or after t, within tol
AsofForward(t, right, tol) ==
    LET c == {k \in DOMAIN right : right[k] >= t}
        f == IF c = {} THEN 0 ELSE CHOOSE k \in c : \A m \in c : k <= m
    IN  IF f # 0 /\ right[f] - t > tol THEN 0 ELSE f

\* the backward match alone
AsofBackwardOnly(t, right, tol) == AsofBackward(t, right, tol)

\* pandas asof_join_nearest: the nearer of the two, the backward one on a tie;
\* 0 when neither is within the tolerance
AsofNearest(t, right, tol) ==
    LET b == AsofBackward(t, right, tol)
        f == AsofForward(t, right, tol)
    IN  IF b # 0 /\ f # 0
        THEN IF t - right[b]
                    <= right[f] - t THEN b ELSE f
        ELSE IF b # 0 THEN b ELSE f

\* merge_asof(w_times, h_times, direction="nearest", tolerance).dropna() and
\* dict(zip(event_id_w, event_id_h)): the matched events, each with the
\* hypocenter event nearest to it
HypoForEvent(evt, h_times, tol) ==
    LET right == [k \in DOMAIN h_times |-> h_times[k].preferred_origin_time]
        hit(k) == AsofNearest(evt[k].event_time, right, tol)
        matched == {k \in DOMAIN evt : hit(k) # 0}
    IN  [e \in {evt[k].event_id : k \in matched} |->
            LET k == CHOOSE m \in matched : evt[m].event_id = e
            IN  h_times[hit(k)].event_id]

used_hypo_ids == {hypo_for_event[e] : e \in DOMAIN hypo_for_event}

\* df_ho[df_ho["event_id"] == hid], in file order
OriginsOf(hid) == SelectSeq(df_ho, LAMBDA o : o.event_id = hid)

OriginIds(origins) == [k \in DOMAIN origins |-> origins[k].origin_id]

\* the final EVENT_CLASS of lines 198-209 ("skip" for the continue)
FinalClass(has_w, has_p, has_h) ==
    IF has_w /\ has_p /\ has_h THEN "W_P_H"
    ELSE IF has_w /\ has_p THEN "W_P"
    ELSE IF has_w /\ has_h THEN "W_H"
    ELSE IF has_w THEN "W_ONLY"
    ELSE IF has_p THEN "P_ONLY"
    ELSE "skip"

RECURSIVE HypoOrigins(_, _)
\* the origin rows of hypocenter events k..: n_origins rows each
HypoOrigins(hs, k) ==
    IF k > Len(hs) THEN <<>>
    ELSE [m \in 1..hs[k].n_origins |->
             [event_id |-> k, origin_id |-> <<k, m>>,
              origin_time |-> hs[k].preferred_origin_time]]
         \o HypoOrigins(hs, k + 1)

Init50 ==
    /\ pc = "join"
    /\ Idle43 /\ Idle22 /\ Idle32 /\ Idle05b /\ IdleCall /\ Idle30
    /\ \E ne \in 0..MaxRows50 :
         \E es \in [1..ne -> EvtRows], hs \in SeqUpTo(HypoRows, MaxRows50 - ne) :
          \* step 32 writes its events sorted by event_class
          /\ \A k \in 1..(ne - 1) : es[k].class <= es[k + 1].class
          /\ df_evt = [k \in 1..ne |->
                 [event_id |-> <<"evt", k>>, event_time |-> es[k].event_time,
                  event_class |-> SpineClasses[es[k].class]]]
          /\ df_he = [k \in DOMAIN hs |->
                 [event_id |-> k,
                  preferred_origin_time |-> hs[k].preferred_origin_time]]
          /\ df_ho = HypoOrigins(hs, 1)
    /\ origin_time_tol \in 0..MaxTol50
    /\ hypo_for_event = <<>>
    /\ catalog_all = <<>>
    /\ n_evt = 1

\* merge_asof refuses a null merge key on the left: the run ends in ValueError
NullKeyError ==
    /\ pc = "join"
    /\ \E k \in DOMAIN df_evt : df_evt[k].event_time = NaT
    /\ pc' = "aborted"
    /\ UNCHANGED <<vars43, vars50, vars22, vars32, vars05b, varsCall, vars30>>

\* lines 127-142: the time-based join
Associate50 ==
    /\ pc = "join"
    /\ \A k \in DOMAIN df_evt : df_evt[k].event_time # NaT
    /\ \E o \in SortedOrders([k \in DOMAIN df_he |-> df_he[k].preferred_origin_time]) :
          hypo_for_event' =
              HypoForEvent(df_evt, [k \in DOMAIN df_he |-> df_he[o[k]]],
                           origin_time_tol)
    /\ pc' = "events"
    /\ UNCHANGED <<vars43, vars22, vars32, vars05b, varsCall, vars30, df_evt, df_he, df_ho, origin_time_tol,
                   catalog_all, n_evt>>

\* lines 156-213: one row of the event spine becomes one catalog event
BuildEvent ==
    /\ pc = "events"
    /\ n_evt <= Len(df_evt)
    /\ LET erow == df_evt[n_evt]
           eid == erow.event_id
           has_w == erow.event_class \in {"WAV_ONLY", "WAV+PICKS"}
           has_p == erow.event_class \in {"PICKS_ONLY", "WAV+PICKS"}
           origins == IF eid \in DOMAIN hypo_for_event
                      THEN OriginsOf(hypo_for_event[eid]) ELSE <<>>
           has_h == origins # <<>>
           cls == FinalClass(has_w, has_p, has_h)
       IN  catalog_all' =
               IF cls = "skip" THEN catalog_all
               ELSE Append(catalog_all,
                      [resource_id |-> <<"event", eid>>,
                       event_class |-> cls,
                       \* the waveform_starttime comment of lines 169-172
                       waveform_starttime |->
                           IF has_w THEN erow.event_time ELSE NaT,
                       origins |-> OriginIds(origins),
                       preferred_origin_id |->
                           IF has_h THEN origins[1].origin_id ELSE NoId])
    /\ n_evt' = n_evt + 1
    /\ UNCHANGED <<pc, vars43, vars22, vars32, vars05b, varsCall, vars30, df_evt, df_he, df_ho, origin_time_tol,
                   hypo_for_event>>

\* every hypocenter event, attached or not
all_hypo_ids == {df_he[k].event_id : k \in DOMAIN df_he}

orphan_hypo_ids == {df_he[k].event_id : k \in DOMAIN df_he} \ used_hypo_ids

\* lines 219-231: one hypocenter event that no spine event used (the set is
\* walked in an order of Python's choosing)
BuildOrphan ==
    /\ pc = "events"
    /\ n_evt > Len(df_evt)
    /\ \E hid \in orphan_hypo_ids :
          /\ \A c \in Range(catalog_all) : c.resource_id # <<"hypocenter", hid>>
          /\ LET origins == OriginsOf(hid)
             IN  catalog_all' = Append(catalog_all,
                     [resource_id |-> <<"hypocenter", hid>>,
                      event_class |-> "H_ONLY",
                      waveform_starttime |-> NaT,
                      origins |-> OriginIds(origins),
                      preferred_origin_id |->
                          IF origins # <<>> THEN origins[1].origin_id ELSE NoId])
    /\ UNCHANGED <<pc, vars43, vars22, vars32, vars05b, varsCall, vars30, df_evt, df_he, df_ho, origin_time_tol,
                   hypo_for_event, n_evt>>

\* lines 237-261: the catalogs are written
WriteCatalog ==
    /\ pc = "events"
    /\ n_evt > Len(df_evt)
    /\ \A hid \in orphan_hypo_ids :
          \E c \in Range(catalog_all) : c.resource_id = <<"hypocenter", hid>>
    /\ pc' = "done"
    /\ UNCHANGED <<vars43, vars50, vars22, vars32, vars05b, varsCall, vars30>>

Next50 == NullKeyError \/ Associate50 \/ BuildEvent \/ BuildOrphan \/ WriteCatalog

Spec50 == Init50 /\ [][Next50]_vars

(***************************************************************************)
(* STEP 22: merge the primary (individual) and secondary (monthly) picks   *)
(***************************************************************************)
MaxPicks22 == 3     \* rows of the two input tables together
MaxPickTime == 2    \* pick times 0..MaxPickTime, in units of the tolerance
DefaultTolerance == 1   \* --time-tolerance (0.5 s), one time unit

\* (seed_norm, phase) of the input rows: two stations, and a missing phase
PickKeys == {<<"XB.AAA..EHZ", "P">>, <<"XB.BBB..EHZ", "P">>, <<"XB.AAA..EHZ", NA>>}

\* input rows before pick_id: group_id is event_id in the primary table and
\* monthly_block_id in the secondary one. Group 1 holds picks of every key,
\* group 2 picks of station AAA, and a row whose time does not parse is
\* written once (its other columns are never read)
PickRows22 ==
    [group_id : {1}, key : PickKeys, pick_time : 0..MaxPickTime]
        \cup [group_id : {2}, key : {<<"XB.AAA..EHZ", "P">>}, pick_time : 0..MaxPickTime]
        \cup [group_id : {1}, key : {<<"XB.AAA..EHZ", "P">>}, pick_time : {NaT}]

\* sort_values puts a missing value last
SeedRank(seed) ==
    IF seed = "XB.AAA..EHZ" THEN 1 ELSE IF seed = "XB.BBB..EHZ" THEN 2 ELSE 3
PhaseRank(phase) == IF phase = "P" THEN 1 ELSE IF phase = "S" THEN 2 ELSE 3
TimeRank(t) == IF t = NaT THEN MaxPickTime + 1 ELSE t

RECURSIVE LexLess(_, _)
\* a < b for two tuples of integers of one length
LexLess(a, b) ==
    IF a = <<>> THEN FALSE
    ELSE IF Head(a) # Head(b) THEN Head(a) < Head(b)
    ELSE LexLess(Tail(a), Tail(b))

\* the stable ascending order of the rows with these sort keys
StableOrder(keys) ==
    LET before(m, k) == LexLess(keys[m], keys[k]) \/ (keys[m] = keys[k] /\ m < k)
        rank(k) == Cardinality({m \in DOMAIN keys : before(m, k)}) + 1
    IN  [r \in DOMAIN keys |-> CHOOSE k \in DOMAIN keys : rank(k) = r]

SortRows(df, keys) == LET o == StableOrder(keys) IN [k \in DOMAIN df |-> df[o[k]]]

MakePicks(rows, prefix) ==
    [k \in DOMAIN rows |->
        [pick_id |-> <<prefix, k>>, group_id |-> rows[k].group_id,
         seed_norm |-> rows[k].key[1], phase |-> rows[k].key[2],
         pick_time |-> rows[k].pick_time]]

\* groupby(...) with its default dropna=True: a row with a missing key
\* column belongs to no group
InSomeGroup(r) == r.phase # NA

SameGroupKey(r, q) ==
    /\ InSomeGroup(r) /\ InSomeGroup(q)
    /\ r.group_id = q.group_id /\ r.seed_norm = q.seed_norm /\ r.phase = q.phase

\* a row after another row of its (group, seed, phase), whatever their times
IsDupOfPreviousSameKey(sorted, k, tol_s) ==
    /\ k > 1
    /\ SameGroupKey(sorted[k], sorted[k - 1])

\* the comparison made for every second row only
IsDupOfPreviousEven(sorted, k, tol_s) ==
    /\ k % 2 = 0
    /\ SameGroupKey(sorted[k], sorted[k - 1])
    /\ sorted[k].pick_time # NaT /\ sorted[k - 1].pick_time # NaT
    /\ Abs(sorted[k].pick_time - sorted[k - 1].pick_time) <= tol_s

\* the comparison with an exclusive boundary (< instead of <=)
IsDupOfPreviousExclusive(sorted, k, tol_s) ==
    /\ k > 1
    /\ SameGroupKey(sorted[k], sorted[k - 1])
    /\ sorted[k].pick_time # NaT /\ sorted[k - 1].pick_time # NaT
    /\ Abs(sorted[k].pick_time - sorted[k - 1].pick_time) < tol_s

\* _dt = groupby(key_cols)[time_col].diff() is the difference to the previous
\* row of the same (group, seed, phase), missing for the first row of a group
\* and for a row in no group; dup_mask = _dt.notna() & (_dt.abs() <= tol_s)
IsDupOfPrevious(sorted, k, tol_s) ==
    /\ k > 1
    /\ SameGroupKey(sorted[k], sorted[k - 1])
    /\ sorted[k].pick_time # NaT /\ sorted[k - 1].pick_time # NaT
    /\ Abs(sorted[k].pick_time - sorted[k - 1].pick_time) <= tol_s

dedupe_within_group(df, tol_s) ==
    LET sorted == SortRows(df, [k \in DOMAIN df |->
                      <<df[k].group_id, SeedRank(df[k].seed_norm),
                        PhaseRank(df[k].phase), TimeRank(df[k].pick_time)>>])
        idx == [k \in DOMAIN sorted |-> k]
        dups == SelectSeq(idx, LAMBDA k : IsDupOfPrevious(sorted, k, tol_s))
        keep == SelectSeq(idx, LAMBDA k : ~IsDupOfPrevious(sorted, k, tol_s))
    IN  [kept |-> [k \in DOMAIN keep |-> sorted[keep[k]]],
         suppressed |-> [k \in DOMAIN dups |-> sorted[dups[k]]]]

SortBySeedPhaseTime(df) ==
    SortRows(df, [k \in DOMAIN df |->
                     <<SeedRank(df[k].seed_norm), PhaseRank(df[k].phase),
                       df[k].pick_time>>])

\* prim_block: the times of the kept primary picks of one (seed_norm, phase),
\* ascending
PrimBlock(prim, seed_norm, phase) ==
    LET blk == SelectSeq(prim, LAMBDA q : q.seed_norm = seed_norm /\ q.phase = phase)
    IN  [k \in DOMAIN blk |-> blk[k].pick_time]

\* the merge_asof of one secondary pick against its prim_block matched
MatchedByPrimary(r, prim, tol) ==
    LET blk == PrimBlock(prim, r.seed_norm, r.phase)
    IN  blk # <<>> /\ AsofNearest(r.pick_time, blk, tol) # 0

WithColumn(df, priority, reason) ==
    [k \in DOMAIN df |->
        [pick_id |-> df[k].pick_id, group_id |-> df[k].group_id,
         seed_norm |-> df[k].seed_norm, phase |-> df[k].phase,
         pick_time |-> df[k].pick_time,
         pick_priority |-> priority, suppressed_reason |-> reason]]

ListKey(r) == <<r.group_id, SeedRank(r.key[1]), PhaseRank(r.key[2]), r.pick_time>>

RECURSIVE ListedInOrder(_, _)
\* the tables of n rows of S in ascending (group, key, time) order: every
\* stage of merge_pick_tables sorts a table before it reads it, so one row
\* order per multiset of rows is drawn
ListedInOrder(n, S) ==
    IF n = 0 THEN {<<>>}
    ELSE UNION {{<<r>> \o t :
                    t \in ListedInOrder(n - 1,
                            {q \in S : ~LexLess(ListKey(q), ListKey(r))})} :
                r \in S}

Init22 ==
    /\ pc = "parse_times"
    /\ Idle43 /\ Idle50 /\ Idle32 /\ Idle05b /\ IdleCall /\ Idle30
    /\ \E np \in 0..MaxPicks22 : \E ns \in 0..(MaxPicks22 - np) :
         \E ps \in ListedInOrder(np, PickRows22), ss \in ListedInOrder(ns, PickRows22) :
          /\ df_primary = MakePicks(ps, "indpha")
          /\ df_secondary = MakePicks(ss, "monthly")
    /\ prim_bad = 0 /\ sec_bad = 0
    /\ df_primary_kept = <<>> /\ df_primary_dups = <<>>
    /\ df_secondary_kept = <<>> /\ df_secondary_dups = <<>>
    /\ df_secondary_suppressed = <<>> /\ df_secondary_final = <<>>
    /\ merged = <<>> /\ suppressed = <<>> /\ diagnostics = <<>>

\* lines 117-124: rows with an unparseable time are dropped and counted
DropBadTimes ==
    /\ pc = "parse_times"
    /\ prim_bad' = Len(SelectSeq(df_primary, LAMBDA r : r.pick_time = NaT))
    /\ sec_bad' = Len(SelectSeq(df_secondary, LAMBDA r : r.pick_time = NaT))
    /\ df_primary' = SelectSeq(df_primary, LAMBDA r : r.pick_time # NaT)
    /\ df_secondary' = SelectSeq(df_secondary, LAMBDA r : r.pick_time # NaT)
    /\ pc' = "dedupe"
    /\ UNCHANGED <<vars43, vars50, vars32, vars05b, varsCall, vars30, df_primary_kept, df_primary_dups,
                   df_secondary_kept, df_secondary_dups, df_secondary_suppressed,
                   df_secondary_final, merged, suppressed, diagnostics>>

\* lines 130-145: dedupe within primary events and within monthly blocks
DedupeGroups ==
    /\ pc = "dedupe"
    /\ LET dp == dedupe_within_group(df_primary, DefaultTolerance)
           ds == dedupe_within_group(df_secondary, DefaultTolerance)
       IN  /\ df_primary_kept' = dp.kept
           /\ df_primary_dups' = dp.suppressed
           /\ df_secondary_kept' = ds.kept
           /\ df_secondary_dups' = ds.suppressed
    /\ pc' = "suppress"
    /\ UNCHANGED <<vars43, vars50, vars32, vars05b, varsCall, vars30, df_primary, df_secondary, prim_bad, sec_bad,
                   df_secondary_suppressed, df_secondary_final, merged,
                   suppressed, diagnostics>>

\* lines 151-188: per (seed_norm, phase) block of the kept secondary picks,
\* split the block by the merge_asof against the kept primary picks
SuppressSecondary ==
    /\ pc = "suppress"
    /\ LET prim == SortBySeedPhaseTime(df_primary_kept)
           sec == SortBySeedPhaseTime(df_secondary_kept)
           blocks == SelectSeq(sec, InSomeGroup)
       IN  /\ df_secondary_suppressed' =
                 SelectSeq(blocks, LAMBDA r : MatchedByPrimary(r, prim, DefaultTolerance))
           /\ df_secondary_final' =
                 SelectSeq(blocks, LAMBDA r : ~MatchedByPrimary(r, prim, DefaultTolerance))
    /\ pc' = "build"
    /\ UNCHANGED <<vars43, vars50, vars32, vars05b, varsCall, vars30, df_primary, df_secondary, prim_bad, sec_bad,
                   df_primary_kept, df_primary_dups, df_secondary_kept,
                   df_secondary_dups, merged, suppressed, diagnostics>>

\* lines 193-239: the merged table, the suppressed report and the counts
BuildMerged ==
    /\ pc = "build"
    /\ merged' = WithColumn(df_primary_kept, "primary", NA)
                    \o WithColumn(df_secondary_final, "secondary", NA)
    /\ suppressed' =
           WithColumn(df_primary_dups, NA, "primary_duplicate_within_event")
        \o WithColumn(df_secondary_dups, NA, "secondary_duplicate_within_monthly_block")
        \o WithColumn(df_secondary_suppressed, NA, "secondary_duplicate_of_primary")
    /\ diagnostics' =
           [primary_in |-> Len(df_primary),
            primary_bad_time |-> prim_bad,
            primary_dups_removed |-> Len(df_primary_dups),
            primary_out |-> Len(df_primary_kept),
            secondary_in |-> Len(df_secondary),
            secondary_bad_time |-> sec_bad,
            secondary_dups_removed |-> Len(df_secondary_dups),
            secondary_suppressed_by_primary |-> Len(df_secondary_suppressed),
            secondary_out |-> Len(df_secondary_final),
            merged_out |-> Len(df_primary_kept) + Len(df_secondary_final)]
    /\ pc' = "done"
    /\ UNCHANGED <<vars43, vars50, vars32, vars05b, varsCall, vars30, df_primary, df_secondary, prim_bad, sec_bad,
                   df_primary_kept, df_primary_dups, df_secondary_kept,
                   df_secondary_dups, df_secondary_suppressed, df_secondary_final>>

Next22 == DropBadTimes \/ DedupeGroups \/ SuppressSecondary \/ BuildMerged

Spec22 == Init22 /\ [][Next22]_vars

(***************************************************************************)
(* STEP 32: build_event_catalog, the waveform events with their picks and  *)
(* the pick-only events                                                    *)
(***************************************************************************)
MaxWav == 2         \* rows of the waveform index
MaxTime32 == 2      \* waveform and pick times 0..MaxTime32
MaxPicks32 == 2     \* rows of the merged pick table
MaxMapRows == 2     \* rows of the Step 30 map
MaxOffset == 1      \* time_offset_from_start in 0..MaxOffset
MaxWavLen == 1      \* endtime - starttime of a waveform in 0..MaxWavLen
TimeTolerance32 == 1    \* --time-tolerance (0.5 s), one time unit

NoGroup == 0        \* a missing event_id (pick group id) of a pick row
NoWaveform == 0     \* the waveform_id of a PICKS_ONLY event

\* waveform windows: they start at the first or at the last time unit
WavRows ==
    {w \in [starttime : {0, MaxTime32}, endtime : 0..MaxTime32] :
        w.starttime <= w.endtime /\ w.endtime - w.starttime <= MaxWavLen}

Seeds32 == {"XB.AAA..EHZ", "XB.BBB..EHZ"}

\* rows of the merged pick table before pick_id: primary picks carry the id
\* of their individual event (1), secondary picks the id of a monthly block
\* (2) or none, as STEP 22 writes no event_id for them; a secondary row whose
\* time does not parse is written once
PickRows32 ==
    [event_id : {1}, pick_priority : {"primary"}, seed_norm : Seeds32,
     phase : {"P"}, pick_time : 0..MaxTime32]
      \cup [event_id : {2}, pick_priority : {"secondary"}, seed_norm : Seeds32,
            phase : {"P"}, pick_time : 0..MaxTime32]
      \cup [event_id : {NoGroup}, pick_priority : {"secondary"},
            seed_norm : {"XB.AAA..EHZ"}, phase : {"P"},
            pick_time : (0..MaxTime32) \cup {NaT}]

MapRows(np) ==
    [pick_id : 1..np, waveform_id : 1..MaxWav, time_offset_from_start : 0..MaxOffset]

RECURSIVE SetToSeq(_)
SetToSeq(S) ==
    IF S = {} THEN <<>>
    ELSE LET x == CHOOSE y \in S : TRUE IN <<x>> \o SetToSeq(S \ {x})

RECURSIVE NonDecreasing(_, _, _)
\* the non-decreasing sequences of n numbers of lo..hi
NonDecreasing(n, lo, hi) ==
    IF n = 0 THEN {<<>>}
    ELSE UNION {{<<a>> \o t : t \in NonDecreasing(n - 1, a, hi)} : a \in lo..hi}

\* the tables of n rows of S, one row order per multiset of rows (the pick
\* table and the map are read through joins, filters and sorts)
TablesOf(n, S) ==
    LET rows == SetToSeq(S)
    IN  {[k \in 1..n |-> rows[ix[k]]] : ix \in NonDecreasing(n, 1, Len(rows))}

WithPickIds(rows) ==
    [k \in DOMAIN rows |->
        [pick_id |-> k, event_id |-> rows[k].event_id,
         pick_priority |-> rows[k].pick_priority, seed_norm |-> rows[k].seed_norm,
         phase |-> rows[k].phase, pick_time |-> rows[k].pick_time]]

WithWaveformIds(rows) ==
    [k \in DOMAIN rows |->
        [event_id |-> k, starttime |-> rows[k].starttime, endtime |-> rows[k].endtime]]

\* validate_step30_map raises unless every pick_id of the map is a pick_id of
\* the pick table and no pick_id is mapped to two waveform_id values
MapAccepted(map, picks) ==
    /\ {map[k].pick_id : k \in DOMAIN map} \subseteq {picks[k].pick_id : k \in DOMAIN picks}
    /\ \A a, b \in DOMAIN map :
          map[a].pick_id = map[b].pick_id => map[a].waveform_id = map[b].waveform_id

PrimaryPicks(picks) == SelectSeq(picks, LAMBDA r : r.pick_priority = "primary")
SecondaryPicks(picks) == SelectSeq(picks, LAMBDA r : r.pick_priority = "secondary")

WavKnown(wid) == \E k \in DOMAIN df_wav : df_wav[k].event_id = wid
WavOf(wid) == df_wav[CHOOSE k \in DOMAIN df_wav : df_wav[k].event_id = wid]

\* one row of ind_full: the map row, left-joined with the primary picks on
\* pick_id (the pick columns stay missing when the pick_id is not a primary
\* pick) and with the waveform index on waveform_id
IndFullRow(m) ==
    LET prim == PrimaryPicks(df_picks)
        hit == {k \in DOMAIN prim : prim[k].pick_id = m.pick_id}
        p == IF hit = {}
             THEN [event_id |-> NoGroup, seed_norm |-> NA, phase |-> NA]
             ELSE prim[CHOOSE k \in hit : TRUE]
    IN  [pick_id |-> m.pick_id, waveform_id |-> m.waveform_id,
         event_id |-> p.event_id, pick_priority |-> "primary",
         seed_norm |-> p.seed_norm, phase |-> p.phase,
         pick_time_evt |-> WavOf(m.waveform_id).starttime + m.time_offset_from_start]

\* ind_full_good: the map rows whose waveform is in the index
ind_full_good ==
    LET good == SelectSeq(df_map, LAMBDA m : WavKnown(m.waveform_id))
    IN  [k \in DOMAIN good |-> IndFullRow(good[k])]

\* a ranking that does not tell the priorities apart
PriRankFlat(pri) == 0

PriRank(pri) == IF pri = "primary" THEN 0 ELSE IF pri = "secondary" THEN 1 ELSE 2

\* groupby(["seed_norm", "phase"]) with its default dropna=True
HasKey(r) == r.seed_norm # NA /\ r.phase # NA

\* the rows before row k in its (seed_norm, phase) group
EarlierInKey(sorted, k) ==
    {m \in 1..(k - 1) :
        /\ HasKey(sorted[m]) /\ HasKey(sorted[k])
        /\ sorted[m].seed_norm = sorted[k].seed_norm
        /\ sorted[m].phase = sorted[k].phase}

SetMax(S) == CHOOSE x \in S : \A y \in S : y <= x

\* _dt = groupby(key_cols)[time_col].diff();
\* dup_mask = _dt.notna() & (_dt.abs() <= tol)
IsDupInEvent(sorted, k, tol) ==
    LET prev == EarlierInKey(sorted, k)
    IN  /\ prev # {}
        /\ Abs(sorted[k].pick_time_evt - sorted[SetMax(prev)].pick_time_evt) <= tol

dedupe_picks_within_event(df, tol) ==
    LET sorted == SortRows(df, [k \in DOMAIN df |->
                      <<PriRank(df[k].pick_priority), SeedRank(df[k].seed_norm),
                        PhaseRank(df[k].phase), df[k].pick_time_evt>>])
        idx == [k \in DOMAIN sorted |-> k]
        dup == SelectSeq(idx, LAMBDA k : IsDupInEvent(sorted, k, tol))
        keep == SelectSeq(idx, LAMBDA k : ~IsDupInEvent(sorted, k, tol))
    IN  [kept |-> [k \in DOMAIN keep |-> sorted[keep[k]]],
         dropped |-> [k \in DOMAIN dup |-> sorted[dup[k]]]]

\* the secondary picks with a valid time, as rows of an event-local table
SecondaryInTime ==
    LET sec == SelectSeq(SecondaryPicks(df_picks), LAMBDA r : r.pick_time # NaT)
    IN  [k \in DOMAIN sec |->
            [pick_id |-> sec[k].pick_id, event_id |-> sec[k].event_id,
             pick_priority |-> "secondary", seed_norm |-> sec[k].seed_norm,
             phase |-> sec[k].phase, pick_time_evt |-> sec[k].pick_time]]

\* no pick_id is recorded
IdsOfNone(df) == {}

IdsOf(df) == {df[k].pick_id : k \in DOMAIN df}

WavEventId(wid) == <<"wav", wid>>
PickEventId(gid) == <<"pick", gid>>

\* the pick map rows of one waveform event
WavPickRows(ev_id, ev_class, wid, df) ==
    [k \in DOMAIN df |->
        [event_id |-> ev_id, event_class |-> ev_class, waveform_id |-> wid,
         pick_id |-> df[k].pick_id, pick_priority |-> df[k].pick_priority,
         pick_group_id |-> df[k].event_id, seed_norm |-> df[k].seed_norm,
         phase |-> df[k].phase, pick_time |-> df[k].pick_time_evt]]

Init32 ==
    /\ pc = "validate"
    /\ Idle43 /\ Idle50 /\ Idle22 /\ Idle05b /\ IdleCall /\ Idle30
    /\ \E nw \in 0..MaxWav : \E ws \in [1..nw -> WavRows] :
          df_wav = WithWaveformIds(ws)
    /\ \E np \in 0..MaxPicks32 :
         /\ \E ps \in TablesOf(np, PickRows32) : df_picks = WithPickIds(ps)
         /\ \E nm \in 0..MaxMapRows : df_map \in TablesOf(nm, MapRows(np))
    /\ wav_pos = 1 /\ assigned_pick_ids = {}
    /\ events_rows = <<>> /\ pick_rows = <<>>
    /\ df_events = <<>> /\ df_pickmap = <<>>

\* lines 59-76: validate_step30_map raises ValueError
RejectMap ==
    /\ pc = "validate"
    /\ ~MapAccepted(df_map, df_picks)
    /\ pc' = "aborted"
    /\ UNCHANGED <<vars43, vars50, vars22, vars32, vars05b, varsCall, vars30>>

\* lines 219-265: the map is accepted and joined
AcceptMap ==
    /\ pc = "validate"
    /\ MapAccepted(df_map, df_picks)
    /\ pc' = "pass1"
    /\ UNCHANGED <<vars43, vars50, vars22, vars32, vars05b, varsCall, vars30>>

\* lines 280-440, one iteration of PASS 1: the event of waveform wav_pos
WaveformEvent ==
    /\ pc = "pass1"
    /\ wav_pos <= Len(df_wav)
    /\ LET w == df_wav[wav_pos]
           ind_picks == SelectSeq(ind_full_good,
                                  LAMBDA r : r.waveform_id = w.event_id)
           ind_keep == dedupe_picks_within_event(ind_picks, TimeTolerance32).kept
           assigned1 == assigned_pick_ids \cup IdsOf(ind_keep)
           mon == SelectSeq(SecondaryInTime, LAMBDA r :
                     /\ r.pick_time_evt >= w.starttime - TimeTolerance32
                     /\ r.pick_time_evt <= w.endtime + TimeTolerance32
                     /\ r.pick_id \notin assigned1)
           mon_keep == dedupe_picks_within_event(mon, TimeTolerance32).kept
           ev_id == WavEventId(w.event_id)
           event_class == IF ind_keep # <<>> \/ mon_keep # <<>>
                          THEN "WAV+PICKS" ELSE "WAV_ONLY"
       IN  /\ assigned_pick_ids' = assigned1 \cup IdsOf(mon_keep)
           /\ pick_rows' = pick_rows
                   \o WavPickRows(ev_id, event_class, w.event_id, ind_keep)
                   \o WavPickRows(ev_id, event_class, w.event_id, mon_keep)
           /\ events_rows' = Append(events_rows,
                   [event_id |-> ev_id, event_class |-> event_class,
                    waveform_id |-> w.event_id,
                    has_primary_picks |-> ind_keep # <<>>,
                    has_secondary_picks |-> mon_keep # <<>>,
                    n_picks_total |-> Len(ind_keep) + Len(mon_keep)])
    /\ wav_pos' = wav_pos + 1
    /\ UNCHANGED <<pc, vars43, vars50, vars22, vars05b, varsCall, vars30, df_wav, df_picks, df_map,
                   df_events, df_pickmap>>

\* the values of a groupby(..., sort=True) in ascending order
Ascending(S) ==
    CHOOSE q \in [1..Cardinality(S) -> S] : \A a, b \in DOMAIN q : a < b => q[a] < q[b]

RECURSIVE FlattenSeq(_)
FlattenSeq(ss) == IF ss = <<>> THEN <<>> ELSE Head(ss) \o FlattenSeq(Tail(ss))

\* remaining: the pick rows whose pick_id PASS 1 did not assign
Remaining(asg) == SelectSeq(df_picks, LAMBDA r : r.pick_id \notin asg)

\* remaining.groupby("event_id", sort=True): the group ids, a row with a
\* missing event_id being in no group
RemainingGroups(asg) ==
    LET rem == Remaining(asg)
    IN  Ascending({rem[k].event_id : k \in DOMAIN rem} \ {NoGroup})

PickOnlyEventRow(gid, g) ==
    [event_id |-> PickEventId(gid), event_class |-> "PICKS_ONLY",
     waveform_id |-> NoWaveform,
     has_primary_picks |-> \E k \in DOMAIN g : g[k].pick_priority = "primary",
     has_secondary_picks |-> \E k \in DOMAIN g : g[k].pick_priority = "secondary",
     n_picks_total |-> Len(g)]

PickOnlyPickRows(gid, g) ==
    [k \in DOMAIN g |->
        [event_id |-> PickEventId(gid), event_class |-> "PICKS_ONLY",
         waveform_id |-> NoWaveform,
         pick_id |-> g[k].pick_id, pick_priority |-> g[k].pick_priority,
         pick_group_id |-> gid, seed_norm |-> g[k].seed_norm,
         phase |-> g[k].phase, pick_time |-> g[k].pick_time]]

ClassRank(c) == IF c = "PICKS_ONLY" THEN 1 ELSE IF c = "WAV+PICKS" THEN 2 ELSE 3

\* "pick_..." sorts before "wav_..."
EventIdKey(ev_id) == <<IF ev_id[1] = "pick" THEN 1 ELSE 2, ev_id[2]>>

\* a missing pick_time sorts last
TimeKey(t) == <<IF t = NaT THEN 1 ELSE 0, t>>

SortEvents(rows) ==
    SortRows(rows, [k \in DOMAIN rows |->
                      <<ClassRank(rows[k].event_class)>> \o EventIdKey(rows[k].event_id)])

SortPickMap(rows) ==
    SortRows(rows, [k \in DOMAIN rows |->
                      EventIdKey(rows[k].event_id)
                        \o <<PriRank(rows[k].pick_priority), SeedRank(rows[k].seed_norm),
                             PhaseRank(rows[k].phase)>>
                        \o TimeKey(rows[k].pick_time)])

\* lines 445-575, PASS 2 and the end of build_event_catalog: one PICKS_ONLY
\* event per group of the remaining picks, then the sorted output tables
PickOnlyEvents ==
    /\ pc = "pass1"
    /\ wav_pos > Len(df_wav)
    /\ LET rem == Remaining(assigned_pick_ids)
           gids == RemainingGroups(assigned_pick_ids)
           grp(gid) == SelectSeq(rem, LAMBDA r : r.event_id = gid)
           ev == [k \in DOMAIN gids |-> PickOnlyEventRow(gids[k], grp(gids[k]))]
           pk == FlattenSeq([k \in DOMAIN gids |-> PickOnlyPickRows(gids[k], grp(gids[k]))])
       IN  /\ events_rows' = events_rows \o ev
           /\ pick_rows' = pick_rows \o pk
           /\ df_events' = SortEvents(events_rows \o ev)
           /\ df_pickmap' = SortPickMap(pick_rows \o pk)
    /\ pc' = "done"
    /\ UNCHANGED <<vars43, vars50, vars22, vars05b, varsCall, vars30, df_wav, df_picks, df_map, wav_pos,
                   assigned_pick_ids>>

Next32 == RejectMap \/ AcceptMap \/ WaveformEvent \/ PickOnlyEvents

Spec32 == Init32 /\ [][Next32]_vars

(***************************************************************************)
(* STEP 05b: association of the merged pick groups with the waveform       *)
(* events                                                                  *)
(***************************************************************************)
MaxWav05b == 2      \* rows of the waveform index
MaxTime05b == 2     \* waveform and pick times 0..MaxTime05b
MaxPicks05b == 3    \* rows of the pick index
MaxGroups05b == 2   \* merged_pick_group_id in 1..MaxGroups05b
MaxWavLen05b == 1   \* endtime - starttime of a waveform in 0..MaxWavLen05b
WindowTol == 1      \* --window-tol-seconds (0.5 s), one time unit

NoHint == 0         \* a missing merged_event_hint / event_id

\* waveform windows of the index: they start at the first or at the last time
\* unit
WavRows05b ==
    {w \in [starttime : {0, MaxTime05b}, endtime : 0..MaxTime05b] :
        w.starttime <= w.endtime /\ w.endtime - w.starttime <= MaxWavLen05b}

\* rows of the pick index before pick_id; the hint of a pick is the id of a
\* waveform (1..MaxWav05b, in the index or not) or missing; a row whose time
\* does not parse is written once
PickRows05b ==
    [merged_pick_group_id : 1..MaxGroups05b,
     merged_event_hint : {NoHint} \cup (1..MaxWav05b),
     pick_time : 0..MaxTime05b]
      \cup [merged_pick_group_id : {1}, merged_event_hint : {NoHint}, pick_time : {NaT}]

WithPickIds05b(rows) ==
    [k \in DOMAIN rows |->
        [pick_id |-> k, merged_pick_group_id |-> rows[k].merged_pick_group_id,
         merged_event_hint |-> rows[k].merged_event_hint,
         pick_time |-> rows[k].pick_time]]

\* pick_groups = df_picks.groupby(group_col, sort=False): the group ids in the
\* order of their first row
RECURSIVE FirstSeen(_, _)
FirstSeen(df, seen) ==
    IF df = <<>> THEN <<>>
    ELSE IF Head(df).merged_pick_group_id \in seen THEN FirstSeen(Tail(df), seen)
    ELSE <<Head(df).merged_pick_group_id>>
            \o FirstSeen(Tail(df), seen \cup {Head(df).merged_pick_group_id})

pick_groups == FirstSeen(df_picks_05b, {})

GroupOf(gid) == SelectSeq(df_picks_05b, LAMBDA r : r.merged_pick_group_id = gid)

SetMin(S) == CHOOSE x \in S : \A y \in S : x <= y

\* _event_hint_for_group: the one hint of the group; None (NoHint) when the
\* picks carry no hint or different hints
event_hint_for_group(g) ==
    LET vals == {g[k].merged_event_hint : k \in DOMAIN g} \ {NoHint}
    IN  IF Cardinality(vals) = 1 THEN CHOOSE v \in vals : TRUE ELSE NoHint

WavIds05b == {df_wav_05b[k].event_id : k \in DOMAIN df_wav_05b}
WavById(wid) == df_wav_05b[CHOOSE k \in DOMAIN df_wav_05b : df_wav_05b[k].event_id = wid]

\* the windows that enclose [tmin, tmax] within the tolerance
Enclosing(tmin, tmax) ==
    SelectSeq(df_wav_05b, LAMBDA w : /\ w.starttime <= tmin + WindowTol
                                     /\ w.endtime >= tmax - WindowTol)

\* the first window of the matches, whatever its duration
FirstOfMatches(matches) == {matches[1]}

\* matches.sort_values("dur").iloc[0]: a window of the shortest duration (the
\* order among windows of one duration is the sort's)
Shortest(matches) ==
    LET dur(w) == w.endtime - w.starttime
    IN  {matches[k] : k \in {j \in DOMAIN matches :
                                \A m \in DOMAIN matches : dur(matches[j]) <= dur(matches[m])}}

\* lines 155-206: the waveform of a pick group and how it was found; the
\* waveform is NoWaveform for a pick-only group
AssociateGroup(g) ==
    LET times == {g[k].pick_time : k \in DOMAIN g}
        hint == event_hint_for_group(g)
        matches == Enclosing(SetMin(times), SetMax(times))
    IN  IF hint # NoHint /\ hint \in WavIds05b
        THEN {[waveform_event_id |-> hint, association_method |-> "event_id"]}
        ELSE IF Len(matches) = 1
        THEN {[waveform_event_id |-> matches[1].event_id,
               association_method |-> "waveform_enclosure"]}
        ELSE IF Len(matches) > 1
        THEN {[waveform_event_id |-> w.event_id,
               association_method |-> "waveform_enclosure_multiple_choose_shortest"] :
                 w \in Shortest(matches)}
        ELSE {[waveform_event_id |-> NoWaveform, association_method |-> "none"]}

\* the picks outside the bare window, without the tolerance
OutsideWindowNoTol(g, w) ==
    SelectSeq(g, LAMBDA r : r.pick_time < w.starttime \/ r.pick_time > w.endtime)

\* the picks of an id-matched group outside the window of its waveform
OutsideWindow(g, w) ==
    SelectSeq(g, LAMBDA r : \/ r.pick_time < w.starttime - WindowTol
                            \/ r.pick_time > w.endtime + WindowTol)

UnmatchedPicks(g, gid, why) ==
    [k \in DOMAIN g |-> [pick_id |-> g[k].pick_id, why_unmatched |-> why, group_id |-> gid]]

PickMapRows(g, ev_id, method, t0) ==
    [k \in DOMAIN g |->
        [pick_id |-> g[k].pick_id, event_id |-> ev_id, association_method |-> method,
         time_offset_from_start |-> g[k].pick_time - t0]]

Init05b ==
    /\ pc = "validate"
    /\ Idle43 /\ Idle50 /\ Idle22 /\ Idle32 /\ IdleCall /\ Idle30
    /\ \E nw \in 0..MaxWav05b : \E ws \in [1..nw -> WavRows05b] :
          df_wav_05b = WithWaveformIds(ws)
    /\ \E np \in 0..MaxPicks05b : \E ps \in TablesOf(np, PickRows05b) :
          df_picks_05b = WithPickIds05b(ps)
    /\ group_pos = 1 /\ used_waveform_ids = {} /\ event_counter = 0
    /\ events_05b = <<>> /\ pick_map = <<>>
    /\ unmatched_picks_rows = <<>> /\ unmatched_waveforms_rows = <<>>

UnparseableTimes ==
    \/ \E k \in DOMAIN df_wav_05b :
          df_wav_05b[k].starttime = NaT \/ df_wav_05b[k].endtime = NaT
    \/ \E k \in DOMAIN df_picks_05b : df_picks_05b[k].pick_time = NaT

\* lines 98-109: SystemExit on an unparseable waveform or pick time
Abort05b ==
    /\ pc = "validate"
    /\ UnparseableTimes
    /\ pc' = "aborted"
    /\ UNCHANGED <<vars43, vars50, vars22, vars32, vars05b, varsCall, vars30>>

\* lines 111-142: the inputs are accepted and grouped
StartGroups ==
    /\ pc = "validate"
    /\ ~UnparseableTimes
    /\ pc' = "groups"
    /\ UNCHANGED <<vars43, vars50, vars22, vars32, vars05b, varsCall, vars30>>

\* lines 144-264, one iteration: the event of pick group group_pos
PickGroupEvent ==
    /\ pc = "groups"
    /\ group_pos <= Len(pick_groups)
    /\ LET gid == pick_groups[group_pos]
           g == GroupOf(gid)
           times == {g[k].pick_time : k \in DOMAIN g}
           ev_id == <<"wp", event_counter + 1>>
       IN  \E a \in AssociateGroup(g) :
             IF a.waveform_event_id = NoWaveform
             THEN /\ events_05b' = Append(events_05b,
                        [event_id |-> ev_id, event_type |-> "pick_only",
                         waveform_event_id |-> NoWaveform, pick_group_id |-> gid,
                         starttime |-> SetMin(times), endtime |-> SetMax(times),
                         n_picks |-> Len(g), association_method |-> "none",
                         event_hint |-> event_hint_for_group(g)])
                  /\ pick_map' = pick_map \o PickMapRows(g, ev_id, "pick_only", SetMin(times))
                  /\ unmatched_picks_rows' = unmatched_picks_rows
                        \o UnmatchedPicks(g, gid, "no_enclosing_waveform")
                  /\ UNCHANGED used_waveform_ids
             ELSE LET w == WavById(a.waveform_event_id)
                  IN  /\ events_05b' = Append(events_05b,
                            [event_id |-> ev_id, event_type |-> "waveform",
                             waveform_event_id |-> w.event_id, pick_group_id |-> gid,
                             starttime |-> w.starttime, endtime |-> w.endtime,
                             n_picks |-> Len(g),
                             association_method |-> a.association_method,
                             event_hint |-> event_hint_for_group(g)])
                      /\ pick_map' = pick_map
                            \o PickMapRows(g, ev_id, a.association_method, w.starttime)
                      /\ unmatched_picks_rows' =
                            IF a.association_method = "event_id"
                            THEN unmatched_picks_rows
                                   \o UnmatchedPicks(OutsideWindow(g, w), gid,
                                                     "id_match_but_pick_outside_window")
                            ELSE unmatched_picks_rows
                      /\ used_waveform_ids' = used_waveform_ids \cup {w.event_id}
    /\ event_counter' = event_counter + 1
    /\ group_pos' = group_pos + 1
    /\ UNCHANGED <<pc, vars43, vars50, vars22, vars32, varsCall, vars30, df_wav_05b, df_picks_05b,
                   unmatched_waveforms_rows>>

\* lines 267-306: a waveform_only event for every waveform that no group
\* used, then the output tables are written
WaveformOnlyEvents ==
    /\ pc = "groups"
    /\ group_pos > Len(pick_groups)
    /\ LET unused == SelectSeq(df_wav_05b, LAMBDA w : w.event_id \notin used_waveform_ids)
       IN  /\ events_05b' = events_05b \o
                 [k \in DOMAIN unused |->
                    [event_id |-> <<"wp", event_counter + k>>,
                     event_type |-> "waveform_only",
                     waveform_event_id |-> unused[k].event_id,
                     pick_group_id |-> NoHint,
                     starttime |-> unused[k].starttime, endtime |-> unused[k].endtime,
                     n_picks |-> 0, association_method |-> "none",
                     event_hint |-> NoHint]]
           /\ event_counter' = event_counter + Len(unused)
           /\ unmatched_waveforms_rows' =
                 [k \in DOMAIN unused |->
                    [event_id |-> unused[k].event_id,
                     why_unmatched |-> "no_picks_associated"]]
    /\ pc' = "done"
    /\ UNCHANGED <<vars43, vars50, vars22, vars32, varsCall, vars30, df_wav_05b, df_picks_05b,
                   group_pos, used_waveform_ids, pick_map, unmatched_picks_rows>>

Next05b == Abort05b \/ StartGroups \/ PickGroupEvent \/ WaveformOnlyEvents

Spec05b == Init05b /\ [][Next05b]_vars

(***************************************************************************)
(* STEP 30: 30_associate_individual_picks_with_waveforms.py                *)
(* Every individual PHA event (the picks of one event_id) is mapped to the *)
(* one waveform window that encloses its picks.                            *)
(***************************************************************************)
MaxWav30 == 2       \* rows of the waveform index
MaxTime30 == 2      \* waveform and pick times 0..MaxTime30
MaxPicks30 == 3     \* rows of the pick table
MaxGroups30 == 2    \* event_id of a pick in 1..MaxGroups30

\* rows of the waveform index; a row whose start time does not parse is
\* written once
WavRows30 ==
    {w \in [starttime : 0..MaxTime30, endtime : 0..MaxTime30] :
        w.starttime <= w.endtime}
      \cup [starttime : {NaT}, endtime : {0}]

\* rows of the STEP 20 pick table before pick_id; a row whose time does not
\* parse is written once per event_id_source
PickRows30 ==
    [event_id : 1..MaxGroups30,
     event_id_source : {"individual_pha_filename", "monthly"},
     pick_time : 0..MaxTime30]
      \cup [event_id : {1}, event_id_source : {"individual_pha_filename", "monthly"},
            pick_time : {NaT}]

WithPickIds30(rows) ==
    [k \in DOMAIN rows |->
        [pick_id |-> k, event_id |-> rows[k].event_id,
         event_id_source |-> rows[k].event_id_source,
         pick_time |-> rows[k].pick_time]]

\* lines 100-102: the authoritative individual PHA picks
IndividualPicks ==
    SelectSeq(df_picks_30, LAMBDA r : r.event_id_source = "individual_pha_filename")

\* grouped = df_picks.groupby("event_id", sort=True)
grouped == Ascending({IndividualPicks[k].event_id : k \in DOMAIN IndividualPicks})

GroupOf30(eid) == SelectSeq(IndividualPicks, LAMBDA r : r.event_id = eid)

\* the windows that start at or before tmin, whatever their end
Matches30StartOnly(tmin, tmax) ==
    SelectSeq(df_wav_30, LAMBDA w : w.starttime <= tmin)

\* lines 145-148: the windows with starttime <= tmin and endtime >= tmax
Matches30(tmin, tmax) ==
    SelectSeq(df_wav_30, LAMBDA w : w.starttime <= tmin /\ w.endtime >= tmax)

Init30 ==
    /\ pc = "validate30"
    /\ Idle43 /\ Idle50 /\ Idle22 /\ Idle32 /\ Idle05b /\ IdleCall
    /\ \E nw \in 0..MaxWav30 : \E ws \in [1..nw -> WavRows30] :
          df_wav_30 = WithWaveformIds(ws)
    /\ \E np \in 0..MaxPicks30 : \E ps \in TablesOf(np, PickRows30) :
          df_picks_30 = WithPickIds30(ps)
    /\ group_pos_30 = 1
    /\ event_rows = <<>> /\ pick_map_rows = <<>> /\ qc_rows = <<>>

\* lines 104-105: SystemExit when no individual PHA pick is left
NoIndividualPicks ==
    /\ pc = "validate30"
    /\ IndividualPicks = <<>>
    /\ pc' = "aborted"
    /\ UNCHANGED <<vars43, vars50, vars22, vars32, vars05b, varsCall, vars30>>

UnparseableTimes30 ==
    \/ \E k \in DOMAIN IndividualPicks : IndividualPicks[k].pick_time = NaT
    \/ \E k \in DOMAIN df_wav_30 :
          df_wav_30[k].starttime = NaT \/ df_wav_30[k].endtime = NaT

\* lines 121-125: SystemExit on an unparseable pick or waveform time
Abort30 ==
    /\ pc = "validate30"
    /\ IndividualPicks # <<>>
    /\ UnparseableTimes30
    /\ pc' = "aborted"
    /\ UNCHANGED <<vars43, vars50, vars22, vars32, vars05b, varsCall, vars30>>

\* lines 127-135: the inputs are accepted and grouped
StartGroups30 ==
    /\ pc = "validate30"
    /\ IndividualPicks # <<>>
    /\ ~UnparseableTimes30
    /\ pc' = "groups30"
    /\ UNCHANGED <<vars43, vars50, vars22, vars32, vars05b, varsCall, vars30>>

\* lines 141-199, one iteration: the individual PHA event group_pos_30
AssociateEvent30 ==
    /\ pc = "groups30"
    /\ group_pos_30 <= Len(grouped)
    /\ LET eid == grouped[group_pos_30]
           g == GroupOf30(eid)
           times == {g[k].pick_time : k \in DOMAIN g}
           tmin == SetMin(times)
           tmax == SetMax(times)
           matches == Matches30(tmin, tmax)
       IN  IF Len(matches) = 1
           THEN /\ event_rows' = Append(event_rows,
                      [source_event_id |-> eid,
                       waveform_event_id |-> matches[1].event_id,
                       starttime |-> matches[1].starttime,
                       endtime |-> matches[1].endtime,
                       n_picks |-> Len(g),
                       association_method |-> "enclosing_waveform"])
                /\ pick_map_rows' = pick_map_rows \o
                      [k \in DOMAIN g |->
                          [pick_id |-> g[k].pick_id, source_event_id |-> eid,
                           waveform_event_id |-> matches[1].event_id,
                           time_offset_from_start |->
                               g[k].pick_time - matches[1].starttime]]
                /\ UNCHANGED qc_rows
           ELSE /\ qc_rows' = Append(qc_rows,
                      [source_event_id |-> eid,
                       issue |-> IF Len(matches) = 0
                                 THEN "no_enclosing_waveform"
                                 ELSE "multiple_enclosing_waveforms",
                       n_matches |-> Len(matches),
                       pick_time_min |-> tmin, pick_time_max |-> tmax])
                /\ UNCHANGED <<event_rows, pick_map_rows>>
    /\ group_pos_30' = group_pos_30 + 1
    /\ UNCHANGED <<pc, vars43, vars50, vars22, vars32, vars05b, varsCall,
                   df_picks_30, df_wav_30>>

\* lines 201-216: the three tables are written
WriteOutputs30 ==
    /\ pc = "groups30"
    /\ group_pos_30 > Len(grouped)
    /\ pc' = "done"
    /\ UNCHANGED <<vars43, vars50, vars22, vars32, vars05b, varsCall, vars30>>

Next30 ==
    NoIndividualPicks \/ Abort30 \/ StartGroups30 \/ AssociateEvent30 \/ WriteOutputs30

Spec30 == Init30 /\ [][Next30]_vars

(***************************************************************************)
(* dedupe_picks_within_event of step 32, called on one event-local table   *)
(* that holds primary and secondary picks                                  *)
(***************************************************************************)
MaxEvtPicks == 3    \* rows of the event-local table

EvtPickRows ==
    [pick_priority : {"primary", "secondary"}, seed_norm : Seeds32,
     phase : {"P", "S"}, pick_time_evt : 0..MaxTime32]

WithEvtPickIds(rows) ==
    [k \in DOMAIN rows |->
        [pick_id |-> k, pick_priority |-> rows[k].pick_priority,
         seed_norm |-> rows[k].seed_norm, phase |-> rows[k].phase,
         pick_time_evt |-> rows[k].pick_time_evt]]

InitEventLocal ==
    /\ pc = "event_local"
    /\ Idle43 /\ Idle50 /\ Idle22 /\ Idle32 /\ Idle05b /\ Idle30
    /\ \E n \in 0..MaxEvtPicks : \E t \in TablesOf(n, EvtPickRows) :
          call_in = WithEvtPickIds(t)
    /\ call_out = <<>>

\* kept, dropped = dedupe_picks_within_event(df, time_col, tol)
CallDedupeEvent ==
    /\ pc = "event_local"
    /\ call_out' = dedupe_picks_within_event(call_in, TimeTolerance32)
    /\ pc' = "event_deduped"
    /\ UNCHANGED <<vars43, vars50, vars22, vars32, vars05b, vars30, call_in>>

\* the two places where a primary pick can meet a secondary one: the merge of
\* step 22 and the event-local dedupe of step 32
NextPrimaryKept == Next22 \/ CallDedupeEvent

InitPrimaryKept == Init22 \/ InitEventLocal

SpecPrimaryKept == InitPrimaryKept /\ [][NextPrimaryKept]_vars

(***************************************************************************)
(* dedupe_within_group of step 22, called on one pick table and then on    *)
(* its own kept output                                                     *)
(***************************************************************************)
InitDedupeCall ==
    /\ pc = "group_table"
    /\ Idle43 /\ Idle50 /\ Idle22 /\ Idle32 /\ Idle05b /\ Idle30
    /\ \E n \in 0..MaxPicks22 : \E ps \in ListedInOrder(n, PickRows22) :
          call_in = MakePicks(ps, "indpha")
    /\ call_out = <<>>

\* kept, suppressed = dedupe_within_group(df, group_cols, time_col, tol_s)
CallDedupeGroup ==
    /\ pc = "group_table"
    /\ call_out' = <<dedupe_within_group(call_in, DefaultTolerance)>>
    /\ pc' = "deduped_once"
    /\ UNCHANGED <<vars43, vars50, vars22, vars32, vars05b, vars30, call_in>>

\* the same call on the kept table of the first call
CallDedupeAgain ==
    /\ pc = "deduped_once"
    /\ call_out' = Append(call_out,
                          dedupe_within_group(call_out[1].kept, DefaultTolerance))
    /\ pc' = "deduped_twice"
    /\ UNCHANGED <<vars43, vars50, vars22, vars32, vars05b, vars30, call_in>>

SpecDedupeCall == InitDedupeCall /\ [][CallDedupeGroup \/ CallDedupeAgain]_vars

(***************************************************************************)
(* filter_pick_group of pha_parser.py, called by step 21 on the picks of    *)
(* one monthly block with max_span_seconds = --max-pick-span               *)
(***************************************************************************)
MaxBlockPicks == 3  \* picks of the block
MaxBlockTime == 3   \* pick times 0..MaxBlockTime
MaxSpan == 1        \* max_span_seconds in 1..MaxSpan
TimeEps == 0        \* time_eps_s (1 ms), below one time unit

RECURSIVE DedupeScan(_, _)
\* the loop of _dedupe_picks over the sorted picks: a pick within time_eps_s
\* of the last kept pick of its (seed_id, phase) is skipped
DedupeScan(rest, out) ==
    IF rest = <<>> THEN out
    ELSE LET p == Head(rest)
             same == SelectSeq(out, LAMBDA q : q.seed_id = p.seed_id /\ q.phase = p.phase)
         IN  IF same # <<>> /\ Abs(p.time - same[Len(same)].time) <= TimeEps
             THEN DedupeScan(Tail(rest), out)
             ELSE DedupeScan(Tail(rest), Append(out, p))

\* _dedupe_picks: sort by (seed_id, phase, time), keep first occurrences
dedupe_picks(picks) ==
    DedupeScan(SortRows(picks, [k \in DOMAIN picks |->
                   <<SeedRank(picks[k].seed_id), PhaseRank(picks[k].phase),
                     picks[k].time>>]), <<>>)

\* filter_pick_outliers: with three picks or more, the picks within
\* max_span_seconds of the median time; np.median of an even number of times
\* is the mean of the two middle ones, so the comparison is made on doubled
\* values
filter_pick_outliers(picks, max_span_seconds) ==
    IF Len(picks) < 3 THEN picks
    ELSE LET n == Len(picks)
             times == SortRows([k \in 1..n |-> picks[k].time],
                               [k \in 1..n |-> <<picks[k].time>>])
             tmed2 == IF n % 2 = 1 THEN 2 * times[(n + 1) \div 2]
                      ELSE times[n \div 2] + times[n \div 2 + 1]
         IN  SelectSeq(picks, LAMBDA q : Abs(2 * q.time - tmed2) <= 2 * max_span_seconds)

\* filter_pick_group with its default min_picks = 1 and
\* drop_singletons_far_from_median = False
filter_pick_group(picks, max_span_seconds) ==
    IF picks = <<>> THEN <<>>
    ELSE LET p1 == filter_pick_outliers(dedupe_picks(picks), max_span_seconds)
             ts == {p1[k].time : k \in DOMAIN p1}
             p2 == IF p1 # <<>> /\ SetMax(ts) - SetMin(ts) > max_span_seconds
                   THEN filter_pick_outliers(p1, max_span_seconds)
                   ELSE p1
         IN  IF Len(p2) < 1 THEN <<>> ELSE p2

InitFilterGroup ==
    /\ pc = "pick_block"
    /\ Idle43 /\ Idle50 /\ Idle22 /\ Idle32 /\ Idle05b /\ Idle30
    /\ \E n \in 0..MaxBlockPicks :
         \E t \in TablesOf(n, [seed_id : Seeds32, phase : {"P"}, time : 0..MaxBlockTime]) :
          \E span \in 1..MaxSpan :
             call_in = [picks |-> t, max_span_seconds |-> span]
    /\ call_out = <<>>

\* step 21, lines 79-82: filtered_picks = filter_pick_group(raw_picks, ...)
CallFilterGroup ==
    /\ pc = "pick_block"
    /\ call_out' = filter_pick_group(call_in.picks, call_in.max_span_seconds)
    /\ pc' = "block_filtered"
    /\ UNCHANGED <<vars43, vars50, vars22, vars32, vars05b, vars30, call_in>>

SpecFilterGroup == InitFilterGroup /\ [][CallFilterGroup]_vars

(***************************************************************************)
(* The stages that read a pick table with its times still to be parsed:    *)
(* the merge of step 22 and the associations of steps 30 and 05b           *)
(***************************************************************************)
NextPickReaders == Next22 \/ Next30 \/ Next05b

InitPickReaders == Init22 \/ Init30 \/ Init05b

SpecPickReaders == InitPickReaders /\ [][NextPickReaders]_vars

(***************************************************************************)
(* Steps 43 and 50 in sequence: step 50 reads the two tables that step 43  *)
(* wrote, and an event spine of at most one event                          *)
(***************************************************************************)
\* step 50, lines 98-116: the hypocenter event index and origin index are the
\* CSV files of step 43
ReadHypoIndexes ==
    /\ pc = "done"
    /\ events # <<>>
    /\ df_he = <<>> /\ catalog_all = <<>>
    /\ df_he' = [k \in DOMAIN events |->
                    [event_id |-> events[k].event_id,
                     preferred_origin_time |-> events[k].preferred_origin_time]]
    /\ df_ho' = [k \in DOMAIN origins_out |->
                    [event_id |-> origins_out[k].event_id,
                     origin_id |-> origins_out[k].origin_id,
                     origin_time |-> origins_out[k].origin_time]]
    /\ \E ne \in 0..1 : \E es \in [1..ne -> EvtRows] :
          df_evt' = [k \in 1..ne |->
                        [event_id |-> <<"evt", k>>, event_time |-> es[k].event_time,
                         event_class |-> SpineClasses[es[k].class]]]
    /\ origin_time_tol' \in 0..MaxTol50
    /\ pc' = "join"
    /\ UNCHANGED <<vars43, vars22, vars32, vars05b, varsCall, vars30,
                   hypo_for_event, catalog_all, n_evt>>

SpecHypoPipeline == Init43 /\ [][Next43 \/ ReadHypoIndexes \/ Next50]_vars

(***************************************************************************)
(* Claims                                                                  *)
(***************************************************************************)

\* C5: step 43 partitions the origins: every input origin is in the origin
\* output exactly once, under one event_id; none is dropped, none is in two
\* clusters, and the n_origins of the events sum to the number of origins.
C5_OriginsPartitioned ==
    /\ \A a, b \in DOMAIN origins_out :
          origins_out[a].origin_id = origins_out[b].origin_id => a = b
    /\ SumSeq([k \in DOMAIN events |-> events[k].n_origins]) = Len(origins_out)
    /\ pc = "done" =>
          /\ \A k \in DOMAIN all_origins :
                \E a \in DOMAIN origins_out :
                    origins_out[a].origin_id = all_origins[k].origin_id
          /\ SumSeq([k \in DOMAIN events |-> events[k].n_origins]) = Len(all_origins)

\* a finished run with a cluster of two origins beside another cluster, one
\* origin having been skipped by the outer loop as already assigned
C5_Witness ==
    /\ pc = "done"
    /\ Len(events) >= 2
    /\ \E k \in DOMAIN events : events[k].n_origins >= 2

\* C1: in the final catalog of step 50 the event-to-hypocenter match is
\* one-to-one: no hypocenter cluster is attached to two waveform/pick events,
\* so no origin_id appears in two output events.
C1_MatchOneToOne ==
    /\ \A e1, e2 \in DOMAIN hypo_for_event :
          hypo_for_event[e1] = hypo_for_event[e2] => e1 = e2
    /\ \A a, b \in DOMAIN catalog_all :
          a # b => Range(catalog_all[a].origins) \cap Range(catalog_all[b].origins) = {}

\* C6: identifier ownership is validated: a run whose linkage puts one
\* origin_id into two output events aborts instead of writing the catalog.
C6_SharedIdAborts ==
    pc = "done" =>
        \A a, b \in DOMAIN catalog_all : \A o \in Range(catalog_all[a].origins) :
            o \in Range(catalog_all[b].origins) => a = b

\* two picks of one station and phase (a missing phase is one phase value)
\* whose times differ by at most the tolerance
NearDuplicates(r, q, tol) ==
    /\ r.seed_norm = q.seed_norm /\ r.phase = q.phase
    /\ Abs(r.pick_time - q.pick_time) <= tol

PickIds(df) == {df[k].pick_id : k \in DOMAIN df}

\* C7: after dedupe_within_group, within each group (event_id for primary,
\* monthly_block_id for secondary picks) no two kept picks have the same
\* (seed_norm, phase) and times that differ by at most the tolerance.
C7_KeptPicksApart ==
    pc \in {"suppress", "build", "done"} =>
        \A df \in {df_primary_kept, df_secondary_kept} :
            \A a, b \in DOMAIN df :
                (a # b /\ df[a].group_id = df[b].group_id)
                    => ~NearDuplicates(df[a], df[b], DefaultTolerance)

\* C9: merge_pick_tables suppresses a secondary pick if and only if some
\* primary pick of the input with the same (seed_norm, phase) lies within
\* the tolerance of it (inclusive); a suppressed pick is absent from the
\* merged table and in the report as secondary_duplicate_of_primary.
C9_SuppressedIffNearPrimary ==
    pc = "done" =>
        \A k \in DOMAIN df_secondary_kept :
            LET r == df_secondary_kept[k]
                reported == \E m \in DOMAIN suppressed :
                               /\ suppressed[m].pick_id = r.pick_id
                               /\ suppressed[m].suppressed_reason
                                    = "secondary_duplicate_of_primary"
                near == \E m \in DOMAIN df_primary :
                            NearDuplicates(r, df_primary[m], DefaultTolerance)
            IN  /\ reported <=> near
                /\ reported => r.pick_id \notin PickIds(merged)

\* C10: merge_pick_tables accounts for every input row with a parseable
\* time: each such pick ends in exactly one of the merged table and the
\* suppressed report, so secondary_in = secondary_dups_removed +
\* secondary_suppressed_by_primary + secondary_out and primary_in =
\* primary_dups_removed + primary_out, also for picks with a missing phase.
C10_EveryPickAccounted ==
    pc = "done" =>
        /\ \A id \in PickIds(df_primary) \cup PickIds(df_secondary) :
              (id \in PickIds(merged)) # (id \in PickIds(suppressed))
        /\ diagnostics.secondary_in =
              diagnostics.secondary_dups_removed
                + diagnostics.secondary_suppressed_by_primary
                + diagnostics.secondary_out
        /\ diagnostics.primary_in =
              diagnostics.primary_dups_removed + diagnostics.primary_out

\* C2: in build_event_catalog (step 32), with unique pick_ids and a Step 30
\* map that validate_step30_map accepts, no pick_id is in the pick map of
\* more than one output event.
C2_PickInOneEvent ==
    \A a, b \in DOMAIN pick_rows :
        pick_rows[a].pick_id = pick_rows[b].pick_id
            => pick_rows[a].event_id = pick_rows[b].event_id

\* C3: build_event_catalog never loses a pick: at the end of the run the
\* pick_ids of the pick map are the pick_ids of the merged-pick input,
\* picks with an unparseable time and picks without a group id included.
C3_NoPickLost ==
    pc = "done" => IdsOf(df_pickmap) = IdsOf(df_picks)

\* C8: in every output event of build_event_catalog no two picks of the pick
\* map share (seed_norm, phase) with times within the tolerance of each
\* other: not a primary and a secondary pick of one waveform event, and not
\* two picks of a PICKS_ONLY event.
C8_EventPicksApart ==
    pc = "done" =>
        \A a, b \in DOMAIN df_pickmap :
            LET r == df_pickmap[a]
                q == df_pickmap[b]
            IN  (/\ a # b /\ r.event_id = q.event_id
                 /\ HasKey(r) /\ r.seed_norm = q.seed_norm /\ r.phase = q.phase
                 /\ r.pick_time # NaT /\ q.pick_time # NaT)
                    => Abs(r.pick_time - q.pick_time) > TimeTolerance32

\* C4: in step 05b, with unique waveform ids, every waveform_event_id of the
\* index is referenced by exactly one output event (the event of the pick
\* group that claimed it, or else one waveform_only event); two pick groups
\* never produce two events on the same waveform.
C4_OneEventPerWaveform ==
    pc = "done" =>
        \A wid \in WavIds05b :
            Cardinality({k \in DOMAIN events_05b :
                            events_05b[k].waveform_event_id = wid}) = 1

\* C11: a primary pick is never dropped because of a secondary pick: every
\* primary pick that survives the within-event dedup of merge_pick_tables is
\* in the merged output with pick_priority primary, and every primary pick
\* that dedupe_picks_within_event drops is within the tolerance of another
\* primary pick of the same (seed_norm, phase).
C11_PrimaryNeverYields ==
    /\ pc = "done" =>
          \A k \in DOMAIN df_primary_kept :
              \E m \in DOMAIN merged :
                  /\ merged[m].pick_id = df_primary_kept[k].pick_id
                  /\ merged[m].pick_priority = "primary"
    /\ pc = "event_deduped" =>
          \A k \in DOMAIN call_out.dropped :
              LET r == call_out.dropped[k]
              IN  r.pick_priority = "primary" =>
                      \E m \in DOMAIN call_in :
                          /\ call_in[m].pick_id # r.pick_id
                          /\ call_in[m].pick_priority = "primary"
                          /\ call_in[m].seed_norm = r.seed_norm
                          /\ call_in[m].phase = r.phase
                          /\ Abs(call_in[m].pick_time_evt - r.pick_time_evt)
                                <= TimeTolerance32

\* a primary pick was dropped in a table that holds a secondary pick of the
\* same key within the tolerance of it
C11_Witness ==
    /\ pc = "event_deduped"
    /\ \E k \in DOMAIN call_out.dropped, m \in DOMAIN call_in :
          /\ call_out.dropped[k].pick_priority = "primary"
          /\ call_in[m].pick_priority = "secondary"
          /\ call_in[m].seed_norm = call_out.dropped[k].seed_norm
          /\ call_in[m].phase = call_out.dropped[k].phase
          /\ call_in[m].pick_time_evt < call_out.dropped[k].pick_time_evt

\* three origins at one location with origin times 0, time_tol and
\* 2 * time_tol
ChainOfThree ==
    /\ Len(all_origins) = 3
    /\ all_origins[1].origin_time = 0
    /\ all_origins[2].origin_time = time_tol
    /\ all_origins[3].origin_time = 2 * time_tol
    /\ \A k \in 2..3 : all_origins[k].latitude = all_origins[1].latitude

\* C12 as stated: three origins at one location with origin times 0, tol and
\* 2*tol, clustered by step 43 with time tolerance tol, end in one cluster.
C12_ChainInOneCluster ==
    (pc = "done" /\ ChainOfThree) => Len(events) = 1

\* C12 amended: with tol > 0 the three origins end in two clusters, the
\* first two in the cluster anchored at the first and the third alone,
\* because the time difference is taken to the anchor of the cluster.
C12_ChainSplitsAtAnchor ==
    (pc = "done" /\ ChainOfThree /\ time_tol > 0) =>
        /\ Len(events) = 2
        /\ events[1].n_origins = 2 /\ events[2].n_origins = 1
        /\ origins_out[1].event_id = 1 /\ origins_out[2].event_id = 1
        /\ origins_out[3].event_id = 2
        /\ origins_out[3].origin_time = 2 * time_tol

C12_Witness == pc = "done" /\ ChainOfThree /\ time_tol > 0 /\ Len(events) = 2

\* the anchor of the cluster of row k of origins_out: the first row of the
\* same event
AnchorRow(k) ==
    origins_out[CHOOSE a \in DOMAIN origins_out :
                    /\ origins_out[a].event_id = origins_out[k].event_id
                    /\ \A b \in 1..(a - 1) :
                          origins_out[b].event_id # origins_out[k].event_id]

\* C13: in step 43 an origin is in a cluster only if its time difference to
\* the cluster's anchor (the first member) is <= time_tol and its distance to
\* the anchor is <= dist_tol; two origins that are alone in the input share
\* a cluster if and only if both conditions hold.
C13_JoinsWithinBothTolerances ==
    /\ \A k \in DOMAIN origins_out :
          /\ Abs(origins_out[k].origin_time - AnchorRow(k).origin_time) <= time_tol
          /\ km_distance(origins_out[k].latitude, 0, AnchorRow(k).latitude, 0)
                <= dist_tol
    /\ (pc = "done" /\ Len(all_origins) = 2) =>
          (Len(events) = 1 <=>
              /\ Abs(all_origins[2].origin_time - all_origins[1].origin_time)
                    <= time_tol
              /\ km_distance(all_origins[1].latitude, 0, all_origins[2].latitude, 0)
                    <= dist_tol)

\* two origins exactly time_tol and dist_tol apart share a cluster
C13_Witness ==
    /\ pc = "done" /\ Len(all_origins) = 2 /\ Len(events) = 1
    /\ time_tol > 0 /\ dist_tol > 0
    /\ all_origins[2].origin_time - all_origins[1].origin_time = time_tol
    /\ Abs(all_origins[2].latitude - all_origins[1].latitude) = dist_tol

\* the rows of origins_out that belong to event e
MembersOf(e) ==
    {k \in DOMAIN origins_out : origins_out[k].event_id = e.event_id}

\* C14: for every cluster produced by step 43, the preferred origin is the
\* chronologically first member whose source equals the preferred source,
\* and, when no member has that source, the chronologically first member of
\* the cluster.
C14_PreferredOrigin ==
    \A n \in DOMAIN events :
        LET e == events[n]
            mem == MembersOf(e)
            ofPref == {k \in mem : origins_out[k].source = preferred_source}
            pool == IF ofPref # {} THEN ofPref ELSE mem
        IN  \E p \in pool :
               /\ origins_out[p].origin_id = e.preferred_origin_id
               /\ origins_out[p].origin_time = e.preferred_origin_time
               /\ \A k \in pool :
                     origins_out[p].origin_time <= origins_out[k].origin_time

\* a cluster whose earliest member is of another source and whose preferred
\* origin is a later member of the preferred source
C14_Witness ==
    /\ pc = "done"
    /\ \E n \in DOMAIN events :
          \E k \in MembersOf(events[n]) :
             /\ origins_out[k].source # preferred_source
             /\ origins_out[k].origin_time < events[n].preferred_origin_time

\* C15: every event of the final catalog of step 50 carries the class its
\* presence flags give: the class names a hypocenter (W_P_H, W_H, H_ONLY)
\* if and only if at least one origin is attached, and names a waveform if
\* and only if the event has a waveform; in particular an event labelled
\* P_ONLY has no origin attached.
C15_ClassMatchesPresence ==
    \A n \in DOMAIN catalog_all :
        LET ev == catalog_all[n]
        IN  /\ ev.event_class \in {"W_P_H", "W_H", "H_ONLY"} <=> ev.origins # <<>>
            /\ ev.event_class \in {"W_P_H", "W_P", "W_H", "W_ONLY"}
                  <=> ev.waveform_starttime # NaT
            /\ ev.event_class = "P_ONLY" => ev.origins = <<>>

\* the catalog events built for hypocenter event hid alone
HypoOnlyEvents(hid) ==
    {n \in DOMAIN catalog_all : catalog_all[n].resource_id = <<"hypocenter", hid>>}

\* the catalog events that hold an origin of hypocenter event hid
EventsHolding(hid) ==
    {n \in DOMAIN catalog_all :
        \E o \in Range(OriginIds(OriginsOf(hid))) :
            o \in Range(catalog_all[n].origins)}

\* C16: every hypocenter cluster of the hypocenter event index appears in
\* the final catalog of step 50: a cluster attached to no waveform/pick
\* event becomes exactly one H_ONLY event, and a cluster attached to some
\* event never also becomes an H_ONLY event.
C16_EveryClusterAppears ==
    pc = "done" =>
        \A k \in DOMAIN df_he :
            LET hid == df_he[k].event_id
            IN  /\ EventsHolding(hid) # {}
                /\ IF hid \in used_hypo_ids
                   THEN /\ HypoOnlyEvents(hid) = {}
                        /\ \A n \in EventsHolding(hid) :
                              catalog_all[n].event_class # "H_ONLY"
                   ELSE /\ Cardinality(HypoOnlyEvents(hid)) = 1
                        /\ EventsHolding(hid) = HypoOnlyEvents(hid)
                        /\ \A n \in HypoOnlyEvents(hid) :
                              catalog_all[n].event_class = "H_ONLY"

\* a finished run with one attached cluster and one unattached cluster
C16_Witness ==
    /\ pc = "done"
    /\ \E a, b \in DOMAIN df_he :
          /\ df_he[a].event_id \in used_hypo_ids
          /\ df_he[b].event_id \notin used_hypo_ids
          /\ HypoOnlyEvents(df_he[b].event_id) # {}

\* the row of table df with the given event_id
RowOf(df, id) == df[CHOOSE k \in DOMAIN df : df[k].event_id = id]

\* C17: step 50 attaches a hypocenter cluster to a waveform/pick event only
\* when the cluster's preferred_origin_time is within origin_time_tol
\* (inclusive) of the event's representative time, and the attached cluster
\* is the one nearest in time to that event among all clusters.
C17_AttachedNearestWithinTol ==
    \A e \in DOMAIN hypo_for_event :
        LET t == RowOf(df_evt, e).event_time
            h == RowOf(df_he, hypo_for_event[e]).preferred_origin_time
        IN  /\ Abs(h - t) <= origin_time_tol
            /\ \A k \in DOMAIN df_he :
                  Abs(h - t) <= Abs(df_he[k].preferred_origin_time - t)

\* an event attached to a later cluster exactly origin_time_tol away while
\* an earlier cluster lies further off
C17_Witness ==
    /\ origin_time_tol > 0
    /\ \E e \in DOMAIN hypo_for_event :
          LET t == RowOf(df_evt, e).event_time
              h == RowOf(df_he, hypo_for_event[e]).preferred_origin_time
          IN  /\ h - t = origin_time_tol
              /\ \E k \in DOMAIN df_he : df_he[k].preferred_origin_time < t

\* the pick groups that step 05b has gone through
ProcessedGroups ==
    IF pc \in {"groups", "done"}
    THEN {pick_groups[k] : k \in 1..(group_pos - 1)} ELSE {}

\* the anomaly rows of pick p
AnomalyRows(p) ==
    {k \in DOMAIN unmatched_picks_rows : unmatched_picks_rows[k].pick_id = p}

\* C18: in step 05b, when a pick group's event hint names a waveform of the
\* index, all picks of the group are attached to that waveform's event
\* whether or not they lie in [start - tol, end + tol]; each pick outside
\* that interval is also recorded in the unmatched-picks report with
\* why_unmatched = id_match_but_pick_outside_window, and a group whose picks
\* all lie inside the interval produces one waveform event with all its
\* picks and no anomaly row.
C18_HintAttachesAllPicks ==
    \A gid \in ProcessedGroups :
        LET g == GroupOf(gid)
            hint == event_hint_for_group(g)
            evs == {n \in DOMAIN events_05b : events_05b[n].pick_group_id = gid}
        IN  (hint # NoHint /\ hint \in WavIds05b) =>
              /\ Cardinality(evs) = 1
              /\ \A n \in evs :
                    LET e == events_05b[n]
                        w == WavById(hint)
                    IN  /\ e.event_type = "waveform"
                        /\ e.waveform_event_id = hint
                        /\ e.n_picks = Len(g)
                        /\ \A k \in DOMAIN g :
                              /\ Cardinality({m \in DOMAIN pick_map :
                                     pick_map[m].pick_id = g[k].pick_id}) = 1
                              /\ \E m \in DOMAIN pick_map :
                                    /\ pick_map[m].pick_id = g[k].pick_id
                                    /\ pick_map[m].event_id = e.event_id
                              /\ IF \/ g[k].pick_time < w.starttime - WindowTol
                                    \/ g[k].pick_time > w.endtime + WindowTol
                                 THEN /\ Cardinality(AnomalyRows(g[k].pick_id)) = 1
                                      /\ \A a \in AnomalyRows(g[k].pick_id) :
                                            unmatched_picks_rows[a].why_unmatched
                                               = "id_match_but_pick_outside_window"
                                 ELSE AnomalyRows(g[k].pick_id) = {}

\* a finished run with a hinted group that has one pick past the end of the
\* window but within the tolerance and one pick beyond the tolerance
C18_Witness ==
    /\ pc = "done"
    /\ \E n \in DOMAIN events_05b :
          /\ events_05b[n].association_method = "event_id"
          /\ \E p, q \in Range(GroupOf(events_05b[n].pick_group_id)) :
                /\ p.pick_time = events_05b[n].endtime + WindowTol
                /\ q.pick_time > events_05b[n].endtime + WindowTol
                /\ AnomalyRows(q.pick_id) # {}

\* the windows of the index that enclose [tmin, tmax] of group g in
\* [start - tol, end + tol]
EnclosingWindows(g) ==
    LET times == {g[k].pick_time : k \in DOMAIN g}
    IN  {k \in DOMAIN df_wav_05b :
            /\ df_wav_05b[k].starttime - WindowTol <= SetMin(times)
            /\ SetMax(times) <= df_wav_05b[k].endtime + WindowTol}

\* C19: in step 05b, a pick group without a usable hint is matched by
\* enclosure of its pick span [tmin, tmax] in [start - tol, end + tol]:
\* exactly one enclosing window is associated; several enclosing windows
\* resolve to the one of shortest duration and the ambiguity is recorded in
\* association_method; no enclosing window makes the group a pick_only event
\* whose starttime and endtime are its tmin and tmax and which has no
\* waveform.
C19_EnclosureMatch ==
    \A gid \in ProcessedGroups :
        LET g == GroupOf(gid)
            hint == event_hint_for_group(g)
            times == {g[k].pick_time : k \in DOMAIN g}
            enc == EnclosingWindows(g)
            evs == {n \in DOMAIN events_05b : events_05b[n].pick_group_id = gid}
        IN  (hint = NoHint \/ hint \notin WavIds05b) =>
              /\ Cardinality(evs) = 1
              /\ \A n \in evs :
                    LET e == events_05b[n]
                    IN  IF enc = {}
                        THEN /\ e.event_type = "pick_only"
                             /\ e.waveform_event_id = NoWaveform
                             /\ e.starttime = SetMin(times)
                             /\ e.endtime = SetMax(times)
                             /\ e.association_method = "none"
                        ELSE /\ e.event_type = "waveform"
                             /\ \E k \in enc :
                                   /\ e.waveform_event_id = df_wav_05b[k].event_id
                                   /\ e.starttime = df_wav_05b[k].starttime
                                   /\ e.endtime = df_wav_05b[k].endtime
                                   /\ \A m \in enc :
                                         df_wav_05b[k].endtime - df_wav_05b[k].starttime
                                           <= df_wav_05b[m].endtime
                                                - df_wav_05b[m].starttime
                             /\ e.association_method =
                                   IF Cardinality(enc) = 1 THEN "waveform_enclosure"
                                   ELSE "waveform_enclosure_multiple_choose_shortest"

\* a finished run in which a group without a hint was enclosed by two windows
\* of different durations, the longer one first in the index
C19_Witness ==
    /\ pc = "done"
    /\ \E n \in DOMAIN events_05b :
          /\ events_05b[n].association_method
                = "waveform_enclosure_multiple_choose_shortest"
          /\ events_05b[n].event_hint = NoHint
          /\ \E k \in EnclosingWindows(GroupOf(events_05b[n].pick_group_id)) :
                /\ df_wav_05b[k].event_id < events_05b[n].waveform_event_id
                /\ df_wav_05b[k].endtime - df_wav_05b[k].starttime
                      > events_05b[n].endtime - events_05b[n].starttime

\* the row of the merged pick table with pick_id p
PickById(p) == df_picks[CHOOSE k \in DOMAIN df_picks : df_picks[k].pick_id = p]

\* C20: build_event_catalog (step 32) creates a PICKS_ONLY event only from
\* picks that have no waveform match: a primary pick that the Step 30 map
\* binds to an indexed waveform, and a secondary pick whose time lies in some
\* waveform window (+/- tolerance), never end in a PICKS_ONLY event.
C20_PicksOnlyHasNoWaveformMatch ==
    pc = "done" =>
        \A n \in DOMAIN df_pickmap :
            df_pickmap[n].event_class = "PICKS_ONLY" =>
                LET p == PickById(df_pickmap[n].pick_id)
                IN  /\ ~ (/\ p.pick_priority = "primary"
                          /\ \E m \in DOMAIN df_map :
                                /\ df_map[m].pick_id = p.pick_id
                                /\ WavKnown(df_map[m].waveform_id))
                    /\ ~ (/\ p.pick_priority = "secondary"
                          /\ p.pick_time # NaT
                          /\ \E k \in DOMAIN df_wav :
                                /\ p.pick_time >= df_wav[k].starttime - TimeTolerance32
                                /\ p.pick_time <= df_wav[k].endtime + TimeTolerance32)

\* the individual PHA events that step 30 has gone through
ProcessedEvents30 ==
    IF pc \in {"groups30", "done"}
    THEN {grouped[k] : k \in 1..(group_pos_30 - 1)} ELSE {}

\* the windows of the index that enclose the picks of event eid
EnclosingWindows30(eid) ==
    {k \in DOMAIN df_wav_30 :
        \A p \in Range(GroupOf30(eid)) :
            df_wav_30[k].starttime <= p.pick_time /\ p.pick_time <= df_wav_30[k].endtime}

\* C21: step 30 maps each individual PHA event to at most one waveform
\* window: an event is associated if and only if exactly one window satisfies
\* starttime <= tmin and endtime >= tmax, and then all its picks map to that
\* one waveform_event_id with time_offset_from_start = pick_time - starttime
\* >= 0; with zero or several enclosing windows the event produces exactly
\* one QC row (no_enclosing_waveform or multiple_enclosing_waveforms), no
\* mapping row, and the run continues.
C21_OneWindowPerEvent ==
    /\ \A eid \in ProcessedEvents30 :
          LET enc == EnclosingWindows30(eid)
              evs == {n \in DOMAIN event_rows : event_rows[n].source_event_id = eid}
              maps == {n \in DOMAIN pick_map_rows :
                          pick_map_rows[n].source_event_id = eid}
              qcs == {n \in DOMAIN qc_rows : qc_rows[n].source_event_id = eid}
          IN  IF Cardinality(enc) = 1
              THEN /\ Cardinality(evs) = 1 /\ qcs = {}
                   /\ \A k \in enc :
                         /\ \A n \in evs :
                               event_rows[n].waveform_event_id = df_wav_30[k].event_id
                         /\ \A n \in maps :
                               pick_map_rows[n].waveform_event_id = df_wav_30[k].event_id
                         /\ \A p \in Range(GroupOf30(eid)) :
                               /\ Cardinality({n \in maps :
                                      pick_map_rows[n].pick_id = p.pick_id}) = 1
                               /\ \A n \in maps :
                                     pick_map_rows[n].pick_id = p.pick_id =>
                                        /\ pick_map_rows[n].time_offset_from_start
                                              = p.pick_time - df_wav_30[k].starttime
                                        /\ pick_map_rows[n].time_offset_from_start >= 0
              ELSE /\ evs = {} /\ maps = {}
                   /\ Cardinality(qcs) = 1
                   /\ \A n \in qcs :
                         qc_rows[n].issue =
                            IF enc = {} THEN "no_enclosing_waveform"
                            ELSE "multiple_enclosing_waveforms"
    /\ pc = "done" =>
          \A k \in DOMAIN IndividualPicks :
              IndividualPicks[k].event_id \in ProcessedEvents30

\* a finished run with an associated event after an event that two windows
\* enclose
C21_Witness ==
    /\ pc = "done"
    /\ \E a \in DOMAIN qc_rows, b \in DOMAIN event_rows :
          /\ qc_rows[a].issue = "multiple_enclosing_waveforms"
          /\ qc_rows[a].source_event_id < event_rows[b].source_event_id
          /\ \E n \in DOMAIN pick_map_rows : pick_map_rows[n].time_offset_from_start > 0

\* C22: a pick whose timestamp cannot be parsed never aborts a run: in every
\* stage that reads picks (merge in step 22, association in steps 30 and
\* 05b) the offending row is dropped and counted and the remaining rows are
\* processed to completion.
C22_BadPickTimeNeverAborts ==
    /\ pc = "aborted" =>
          /\ \A k \in DOMAIN IndividualPicks : IndividualPicks[k].pick_time # NaT
          /\ \A k \in DOMAIN df_picks_05b : df_picks_05b[k].pick_time # NaT
    /\ pc \in {"dedupe", "suppress", "build", "groups30", "groups", "done"} =>
          /\ \A k \in DOMAIN df_primary : df_primary[k].pick_time # NaT
          /\ \A k \in DOMAIN df_secondary : df_secondary[k].pick_time # NaT
          /\ \A k \in DOMAIN merged : merged[k].pick_time # NaT
          /\ \A k \in DOMAIN pick_map : \A p \in Range(df_picks_05b) :
                p.pick_id = pick_map[k].pick_id => p.pick_time # NaT
          /\ \A k \in DOMAIN pick_map_rows : \A p \in Range(df_picks_30) :
                p.pick_id = pick_map_rows[k].pick_id => p.pick_time # NaT

\* C23: dedupe_within_group (step 22) is idempotent: applied to its own kept
\* output with the same grouping columns and tolerance, it keeps every pick
\* and suppresses none.
C23_DedupeIdempotent ==
    pc = "deduped_twice" =>
        /\ call_out[2].suppressed = <<>>
        /\ call_out[2].kept = call_out[1].kept

\* a second call on a kept table of two picks, after a first call that
\* suppressed a pick
C23_Witness ==
    /\ pc = "deduped_twice"
    /\ call_out[1].suppressed # <<>>
    /\ Len(call_out[2].kept) >= 2

\* C24: for two picks of one group with identical (seed_norm, phase),
\* dedupe_within_group drops the later one when their time difference is
\* less than or exactly equal to the tolerance, and keeps both when the
\* difference is greater than the tolerance.
C24_InclusiveBoundary ==
    (/\ pc \in {"deduped_once", "deduped_twice"}
     /\ Len(call_in) = 2
     /\ call_in[1].group_id = call_in[2].group_id
     /\ call_in[1].seed_norm = call_in[2].seed_norm
     /\ call_in[1].phase = call_in[2].phase
     /\ call_in[1].pick_time # NaT /\ call_in[2].pick_time # NaT) =>
        IF Abs(call_in[1].pick_time - call_in[2].pick_time) <= DefaultTolerance
        THEN /\ Len(call_out[1].kept) = 1 /\ Len(call_out[1].suppressed) = 1
             /\ call_out[1].kept[1].pick_time <= call_out[1].suppressed[1].pick_time
        ELSE Len(call_out[1].kept) = 2 /\ call_out[1].suppressed = <<>>

\* the picks of table df in the (group, seed_norm, phase) run of pick s that
\* have a time
SameRun(df, s) == {q \in Range(df) : SameGroupKey(q, s) /\ q.pick_time # NaT}

\* C28 (as stated): every pick suppressed by dedupe_within_group is a
\* duplicate of a survivor: for each suppressed pick there is a kept pick of
\* the same group, seed_norm and phase whose time is within the tolerance of
\* it, also in a chain of picks such as 0, 0.4 and 0.8 s with tolerance 0.5 s.
C28_SuppressedNearSurvivor ==
    pc \in {"deduped_once", "deduped_twice"} =>
        \A s \in Range(call_out[1].suppressed) :
            \E q \in SameRun(call_out[1].kept, s) :
                Abs(s.pick_time - q.pick_time) <= DefaultTolerance

\* C28 (amended): every pick suppressed by dedupe_within_group is within the
\* tolerance of its predecessor in its (group, seed_norm, phase) run, kept or
\* suppressed; it is linked to an earlier kept pick of the run by a chain of
\* picks each within the tolerance of the one before, and in the chain 0, 1,
\* 2 with tolerance 1 the pick at 2 is suppressed although the only survivor
\* is at 0.
C28_SuppressedNearPredecessor ==
    pc \in {"deduped_once", "deduped_twice"} =>
        /\ \A s \in Range(call_out[1].suppressed) :
              /\ \E q \in SameRun(call_in, s) :
                    /\ q.pick_id # s.pick_id
                    /\ q.pick_time <= s.pick_time
                    /\ s.pick_time - q.pick_time <= DefaultTolerance
              /\ \E k \in SameRun(call_out[1].kept, s) :
                    /\ k.pick_time <= s.pick_time
                    /\ \A b \in SameRun(call_in, s) :
                          (k.pick_time < b.pick_time /\ b.pick_time <= s.pick_time) =>
                             \E a \in SameRun(call_in, s) :
                                /\ a.pick_time < b.pick_time
                                /\ b.pick_time - a.pick_time <= DefaultTolerance
        /\ \A s \in Range(call_in) :
              (/\ s.pick_time = 2 * DefaultTolerance
               /\ \E a, b \in SameRun(call_in, s) :
                     a.pick_time = 0 /\ b.pick_time = DefaultTolerance) =>
                 /\ s \in Range(call_out[1].suppressed)
                 /\ \A k \in SameRun(call_out[1].kept, s) : k.pick_time = 0

\* a chain 0, 1, 2: the pick at 2 is suppressed and no kept pick of its run is
\* within the tolerance of it
C28_Witness ==
    /\ pc = "deduped_once"
    /\ \E s \in Range(call_out[1].suppressed) :
          /\ s.pick_time = 2 * DefaultTolerance
          /\ \A k \in SameRun(call_out[1].kept, s) :
                s.pick_time - k.pick_time > DefaultTolerance

\* C25: for every final-catalog event with a hypocenter (step 50), the
\* event's preferred origin is the origin that step 43 selected as preferred
\* for that cluster (the one whose time is the cluster's
\* preferred_origin_time), also when the preferred source makes it differ
\* from the chronologically first member of the cluster.
C25_PreferredOriginCarried ==
    \A n \in DOMAIN catalog_all :
        catalog_all[n].origins # <<>> =>
            \E k \in DOMAIN events :
                /\ \E o \in DOMAIN origins_out :
                      /\ origins_out[o].event_id = events[k].event_id
                      /\ origins_out[o].origin_id = catalog_all[n].origins[1]
                /\ \E o \in DOMAIN origins_out :
                      /\ origins_out[o].origin_id = catalog_all[n].preferred_origin_id
                      /\ origins_out[o].origin_time = events[k].preferred_origin_time

RECURSIVE ScanAllLater(_, _, _)
\* the scan of anchor a over every later unassigned origin, without the early
\* stop
ScanAllLater(a, j, members) ==
    IF j > Len(all_origins) THEN members
    ELSE IF /\ ~assigned[j]
            /\ Abs(all_origins[j].origin_time - all_origins[a].origin_time)
                  <= time_tol
            /\ km_distance(all_origins[a].latitude, all_origins[a].longitude,
                           all_origins[j].latitude, all_origins[j].longitude)
                  <= dist_tol
         THEN ScanAllLater(a, j + 1, Append(members, j))
         ELSE ScanAllLater(a, j + 1, members)

\* C26: the early-terminating scan of step 43 (stop at the first unassigned
\* later origin whose time difference to the anchor exceeds time_tol) yields
\* the same clusters as a scan over all later unassigned origins, for every
\* input sorted by origin_time.
C26_EarlyStopSameClusters ==
    (pc = "associate" /\ i <= Len(all_origins) /\ ~assigned[i]) =>
        ScanLater(i, i + 1, <<i>>) = ScanAllLater(i, i + 1, <<i>>)

\* the scan of the first anchor stopped at the second origin, more than
\* time_tol later, with a third origin behind it
C26_Witness ==
    /\ pc = "associate" /\ i = 2 /\ Len(all_origins) = 3
    /\ Len(events) = 1 /\ events[1].n_origins = 1
    /\ all_origins[2].origin_time - all_origins[1].origin_time > time_tol
    /\ all_origins[2].latitude = all_origins[1].latitude
    /\ time_tol > 0

\* C27: filter_pick_group enforces the span constraint: for every non-empty
\* input group, the picks it returns span at most max_span_seconds from
\* earliest to latest, so no monthly block written by step 21 spans more
\* than --max-pick-span seconds.
C27_SpanEnforced ==
    (pc = "block_filtered" /\ call_in.picks # <<>> /\ call_out # <<>>) =>
        \A a, b \in DOMAIN call_out :
            call_out[a].time - call_out[b].time <= call_in.max_span_seconds

\* pick p lies in the tolerance-extended window of waveform row w
InWindow32(p, w) ==
    /\ p.pick_time # NaT
    /\ p.pick_time >= df_wav[w].starttime - TimeTolerance32
    /\ p.pick_time <= df_wav[w].endtime + TimeTolerance32

\* the pick-map rows that attach pick p to waveform row w
AttachedRows(p, w) ==
    {n \in DOMAIN df_pickmap :
        /\ df_pickmap[n].pick_id = p.pick_id
        /\ df_pickmap[n].waveform_id = df_wav[w].event_id}

\* pick p is attached to waveform row w by the time-window rule
AttachedByWindow(p, w) ==
    \E n \in AttachedRows(p, w) : df_pickmap[n].pick_priority = "secondary"

\* C29: in build_event_catalog (step 32), a secondary pick whose time lies in
\* the tolerance-extended windows of two waveforms is attached to the
\* waveform that comes first in the waveform index, unless the event-local
\* dedupe drops it there; the choice does not depend on the durations of the
\* windows.
C29_FirstWindowWins ==
    pc = "done" =>
        \A p \in Range(SecondaryPicks(df_picks)) : \A a, b \in DOMAIN df_wav :
            (a < b /\ InWindow32(p, a) /\ InWindow32(p, b)) =>
                /\ \/ AttachedRows(p, a) # {}
                   \/ \E q \in Range(SecondaryPicks(df_picks)) :
                         /\ q.pick_id # p.pick_id /\ InWindow32(q, a)
                         /\ q.seed_norm = p.seed_norm /\ q.phase = p.phase
                         /\ Abs(q.pick_time - p.pick_time) <= TimeTolerance32
                /\ AttachedByWindow(p, b) => AttachedRows(p, a) = {}

\* a secondary pick in the windows of two waveforms, the first one the
\* longer, attached to the first
C29_Witness ==
    /\ pc = "done"
    /\ \E p \in Range(SecondaryPicks(df_picks)) : \E a, b \in DOMAIN df_wav :
          /\ a < b /\ InWindow32(p, a) /\ InWindow32(p, b)
          /\ df_wav[a].endtime - df_wav[a].starttime
                > df_wav[b].endtime - df_wav[b].starttime
          /\ AttachedByWindow(p, a)

\* an origin without its row-index id: what the input says about it
Content(o) == [origin_time |-> o.origin_time, latitude |-> o.latitude,
               source |-> o.source]

\* what a run says about its clusters: the members and the preferred origin
\* of each
ClusterContents(clusters) ==
    {[members |-> {Content(c.group[m]) : m \in DOMAIN c.group},
      n_origins |-> Len(c.group),
      preferred |-> Content(c.preferred)] : c \in Range(clusters)}

\* the tables with the rows of all_origins in another order of the rows of
\* equal origin_time
TieOrders ==
    {[k \in DOMAIN all_origins |-> all_origins[f[k]]] :
        f \in {g \in [DOMAIN all_origins -> DOMAIN all_origins] :
                 /\ \A a, b \in DOMAIN all_origins : a # b => g[a] # g[b]
                 /\ \A a \in DOMAIN all_origins :
                       all_origins[g[a]].origin_time = all_origins[a].origin_time}}

NoneAssigned == [k \in DOMAIN all_origins |-> FALSE]

\* C30: the clustering of step 43 is determined by the set of origins: two
\* runs whose inputs differ only in the relative order of origins with equal
\* origin_time produce the same partition into clusters and the same
\* preferred origin per cluster.
C30_OrderOfTiesIrrelevant ==
    pc = "done" =>
        \A rows2 \in TieOrders :
            ClusterContents(ClusterRun(rows2, NoneAssigned, 1))
                = ClusterContents(ClusterRun(all_origins, NoneAssigned, 1))

====
